---- MODULE Spec2Model ----
(***************************************************************************)
(* Model of the TAC execution simulator of gui.py                          *)
(* (SysCompilerGUI.simulate_ir_execution and evaluate_simple_expression)   *)
(* and of the report format_asm_output makes of its result.                *)
(* Text is modelled as text: a line of intermediate code is a TLA+ string  *)
(* and every test the code makes on it (strip, startswith, split, isdigit, *)
(* int) is computed character by character.                                *)
(***************************************************************************)
EXTENDS Integers, Sequences, FiniteSets, TLC

(***************************************************************************)
(* Python str methods                                                      *)
(***************************************************************************)

\* the characters str.strip() and str.split() treat as white space
Whitespace == {" ", "\t"}

\* the characters int() reads as decimal digits
DecimalDigits == {"0", "1", "2", "3", "4", "5", "6", "7", "8", "9"}

\* SUPERSCRIPT TWO (U+00B2), written in ASCII: the texts of this module hold
\* the character "^" where the Python text holds U+00B2
SuperscriptTwo == "^"

\* str.isdigit() is also true of digit characters that int() rejects,
\* such as SUPERSCRIPT TWO
DigitChars == DecimalDigits \cup {SuperscriptTwo}

CharAt(s, i) == SubSeq(s, i, i)

\* s[i:] for a 0-based Python index i
From(s, i) == SubSeq(s, i + 1, Len(s))

\* str.strip()
Strip(s) ==
    LET keep == {i \in 1..Len(s) : CharAt(s, i) \notin Whitespace}
    IN  IF keep = {} THEN ""
        ELSE LET first == CHOOSE i \in keep : \A j \in keep : i <= j
                 last == CHOOSE i \in keep : \A j \in keep : j <= i
             IN  SubSeq(s, first, last)

\* str.startswith(p)
StartsWith(s, p) == Len(s) >= Len(p) /\ SubSeq(s, 1, Len(p)) = p

\* str.endswith(p)
EndsWith(s, p) == Len(s) >= Len(p) /\ SubSeq(s, Len(s) - Len(p) + 1, Len(s)) = p

\* the 1-based positions at which sub occurs in s
Occurrences(s, sub) ==
    {i \in 1..(Len(s) - Len(sub) + 1) : SubSeq(s, i, i + Len(sub) - 1) = sub}

\* sub in s
Contains(s, sub) == Occurrences(s, sub) # {}

\* the position of the first occurrence of sub in s, 0 when there is none
Find(s, sub) ==
    LET occ == Occurrences(s, sub)
    IN  IF occ = {} THEN 0 ELSE CHOOSE i \in occ : \A j \in occ : i <= j

\* str.split(sep): the pieces between the non-overlapping occurrences of sep,
\* found left to right
RECURSIVE Split(_, _)
Split(s, sep) ==
    LET p == Find(s, sep)
    IN  IF p = 0 THEN <<s>>
        ELSE <<SubSeq(s, 1, p - 1)>> \o Split(SubSeq(s, p + Len(sep), Len(s)), sep)

\* str.split(sep, 1)
SplitOnce(s, sep) ==
    LET p == Find(s, sep)
    IN  IF p = 0 THEN <<s>>
        ELSE <<SubSeq(s, 1, p - 1), SubSeq(s, p + Len(sep), Len(s))>>

\* str.count(sub)
Count(s, sub) == Len(Split(s, sub)) - 1

\* str.replace(old, ""): s without the occurrences of old
RECURSIVE Remove(_, _)
Remove(s, old) ==
    LET p == Find(s, old)
    IN  IF p = 0 THEN s
        ELSE SubSeq(s, 1, p - 1) \o Remove(SubSeq(s, p + Len(old), Len(s)), old)

\* str.split() with no argument: the maximal runs of non-blank characters
RECURSIVE SplitWs(_)
SplitWs(s0) ==
    LET s == Strip(s0)
        blanks == {i \in 1..Len(s) : CharAt(s, i) \in Whitespace}
    IN  IF s = "" THEN <<>>
        ELSE IF blanks = {} THEN <<s>>
        ELSE LET b == CHOOSE i \in blanks : \A j \in blanks : i <= j
             IN  <<SubSeq(s, 1, b - 1)>> \o SplitWs(SubSeq(s, b, Len(s)))

\* str.isdigit()
IsDigit(s) == s # "" /\ \A i \in 1..Len(s) : CharAt(s, i) \in DigitChars

DigitValue(c) ==
    CASE c = "0" -> 0 [] c = "1" -> 1 [] c = "2" -> 2 [] c = "3" -> 3 [] c = "4" -> 4
      [] c = "5" -> 5 [] c = "6" -> 6 [] c = "7" -> 7 [] c = "8" -> 8 [] c = "9" -> 9

\* whether int(s) returns, for the strings the code hands to int(): they hold
\* no blanks; int() raises ValueError on every character that is no decimal
\* digit (an inner '-', a SUPERSCRIPT TWO)
IntParses(s) == s # "" /\ \A i \in 1..Len(s) : CharAt(s, i) \in DecimalDigits

\* int(s) for a string of decimal digits
RECURSIVE ParseNat(_)
ParseNat(s) ==
    IF s = "" THEN 0
    ELSE 10 * ParseNat(SubSeq(s, 1, Len(s) - 1)) + DigitValue(CharAt(s, Len(s)))

(***************************************************************************)
(* Python values: int, float, None and the string "ARRAY_OPERATION".       *)
(* A number is its exact value num/den in lowest terms; a float is kept as *)
(* the exact rational it denotes.                                          *)
(***************************************************************************)

Abs(n) == IF n < 0 THEN -n ELSE n

RECURSIVE Gcd(_, _)
Gcd(a, b) == IF b = 0 THEN a ELSE Gcd(b, a % b)

None == [kind |-> "None", num |-> 0, den |-> 1]

ARRAY_OPERATION == [kind |-> "ARRAY_OPERATION", num |-> 0, den |-> 1]

PyInt(n) == [kind |-> "int", num |-> n, den |-> 1]

PyFloat(n, d) ==
    LET g == Gcd(Abs(n), d)
    IN  [kind |-> "float", num |-> n \div g, den |-> d \div g]

IsNumber(v) == v.kind \in {"int", "float"}

\* the result type of a Python arithmetic operator on two numbers
Arith(l, r, n, d) ==
    IF l.kind = "int" /\ r.kind = "int" /\ d = 1 THEN PyInt(n) ELSE PyFloat(n, d)

\* a sum that is its left operand
PyAddLeftOnly(l, r) == l

\* left + right
PyAdd(l, r) == Arith(l, r, l.num * r.den + r.num * l.den, l.den * r.den)

\* left - right
PySub(l, r) == Arith(l, r, l.num * r.den - r.num * l.den, l.den * r.den)

\* left * right
PyMul(l, r) == Arith(l, r, l.num * r.num, l.den * r.den)

\* left / right (true division: always a float), for right # 0
PyDiv(l, r) ==
    IF r.num > 0 THEN PyFloat(l.num * r.den, l.den * r.num)
    ELSE PyFloat(-(l.num * r.den), l.den * (-r.num))

\* -val
PyNeg(v) == [v EXCEPT !.num = -v.num]

\* int(val): truncation toward zero
PyToInt(v) ==
    IF v.num >= 0 THEN PyInt(v.num \div v.den) ELSE PyInt(-((-v.num) \div v.den))

\* float(val)
PyToFloat(v) == PyFloat(v.num, v.den)

\* the comparisons of numbers (1 == 1.0 in Python)
PyEq(l, r) == l.num * r.den = r.num * l.den
PyLt(l, r) == l.num * r.den < r.num * l.den
PyLe(l, r) == l.num * r.den <= r.num * l.den

\* whether float(s) returns, for the strings the code hands to float():
\* digits, '-' and at least one '.', no blanks
FloatParses(s) ==
    /\ Count(s, ".") = 1
    /\ Remove(s, ".") # ""
    /\ \A i \in 1..Len(s) : CharAt(s, i) \in DecimalDigits \cup {"."}

RECURSIVE Pow10(_)
Pow10(n) == IF n = 0 THEN 1 ELSE 10 * Pow10(n - 1)

\* float(s) for digits with one decimal point
ParseFloat(s) ==
    LET p == Find(s, ".")
        frac == SubSeq(s, p + 1, Len(s))
    IN  PyFloat(ParseNat(SubSeq(s, 1, p - 1)) * Pow10(Len(frac)) + ParseNat(frac),
                Pow10(Len(frac)))

DigitChar(d) ==
    CASE d = 0 -> "0" [] d = 1 -> "1" [] d = 2 -> "2" [] d = 3 -> "3" [] d = 4 -> "4"
      [] d = 5 -> "5" [] d = 6 -> "6" [] d = 7 -> "7" [] d = 8 -> "8" [] d = 9 -> "9"

\* str(n) for a natural number n
RECURSIVE NatToStr(_)
NatToStr(n) == IF n < 10 THEN DigitChar(n) ELSE NatToStr(n \div 10) \o DigitChar(n % 10)

\* the digits after the decimal point of r/d, for a fraction that terminates
RECURSIVE FracDigits(_, _)
FracDigits(r, d) ==
    IF r = 0 THEN ""
    ELSE DigitChar((10 * r) \div d) \o FracDigits((10 * r) % d, d)

\* str(val) as the f-string of the trace writes it: 7, -3, 3.5, 7.0
\* (floats in the range where repr() uses no exponent)
PyStr(v) ==
    LET sign == IF v.num < 0 THEN "-" ELSE ""
        a == Abs(v.num)
    IN  IF v.kind = "int" THEN sign \o NatToStr(a)
        ELSE sign \o NatToStr(a \div v.den) \o "." \o
             (IF a % v.den = 0 THEN "0" ELSE FracDigits(a % v.den, v.den))

(***************************************************************************)
(* Python dict: the key/value pairs in insertion order                     *)
(***************************************************************************)

Has(d, k) == \E i \in 1..Len(d) : d[i].key = k

Get(d, k) == d[CHOOSE i \in 1..Len(d) : d[i].key = k].value

\* an assignment that drops the other keys
PutAlone(d, k, v) == <<[key |-> k, value |-> v]>>

\* d[k] = v: a new key goes last, a known key keeps its place
Put(d, k, v) ==
    IF Has(d, k)
    THEN [i \in 1..Len(d) |-> IF d[i].key = k THEN [key |-> k, value |-> v] ELSE d[i]]
    ELSE Append(d, [key |-> k, value |-> v])

\* list(d.keys())
Keys(d) == [i \in 1..Len(d) |-> d[i].key]

(***************************************************************************)
(* evaluate_simple_expression                                              *)
(***************************************************************************)

\* the operators in the order the code tries them
Operators == <<"+", "-", "*", "/", "<=", ">=", "<", ">", "==", "!=">>

\* the condition under which the code splits expr at operator op
SplitsAt(expr, op) ==
    CASE op \in {"+", "-", "*", "/"} -> Contains(expr, op) /\ Count(expr, op) = 1
      [] op \in {"<=", ">=", "=="} -> Contains(expr, op) /\ Len(Split(expr, op)) = 2
      [] op = "<" -> Contains(expr, "<") /\ ~Contains(expr, "<=")
                        /\ Len(Split(expr, "<")) = 2
      [] op = ">" -> Contains(expr, ">") /\ ~Contains(expr, ">=")
                        /\ Len(Split(expr, ">")) = 2
      [] op = "!=" -> Contains(expr, " !=") /\ Len(Split(expr, "!=")) = 2

\* the value the block of operator op returns for two evaluated sides, None
\* when it returns nothing and the code goes on to the next block
Apply(op, left, right) ==
    IF left = None \/ right = None THEN None
    ELSE CASE op = "+" -> PyAdd(left, right)
           [] op = "-" -> PySub(left, right)
           [] op = "*" -> PyMul(left, right)
           [] op = "/" -> IF right.num # 0 THEN PyDiv(left, right) ELSE None
           [] op = "<=" -> PyInt(IF PyLe(left, right) THEN 1 ELSE 0)
           [] op = ">=" -> PyInt(IF PyLe(right, left) THEN 1 ELSE 0)
           [] op = "<" -> PyInt(IF PyLt(left, right) THEN 1 ELSE 0)
           [] op = ">" -> PyInt(IF PyLt(right, left) THEN 1 ELSE 0)
           [] op = "==" -> PyInt(IF PyEq(left, right) THEN 1 ELSE 0)
           [] op = "!=" -> PyInt(IF PyEq(left, right) THEN 0 ELSE 1)

\* a number literal: int(expr) or float(expr); the ValueError either raises is
\* caught by the except clause, which returns None
Literal(expr) ==
    IF Contains(expr, ".")
    THEN IF FloatParses(expr) THEN ParseFloat(expr) ELSE None
    ELSE IF IntParses(expr) THEN PyInt(ParseNat(expr)) ELSE None

RECURSIVE evaluate_simple_expression(_, _)
RECURSIVE EvalBinary(_, _, _)

\* the blocks of the binary operators from the i-th on: the first block that
\* returns a value decides, a block whose side is None falls through
EvalBinary(expr, var_values, i) ==
    IF i > Len(Operators) THEN None
    ELSE LET op == Operators[i]
             parts == Split(expr, op)
             val == IF SplitsAt(expr, op)
                    THEN Apply(op,
                               evaluate_simple_expression(Strip(parts[1]), var_values),
                               evaluate_simple_expression(Strip(parts[2]), var_values))
                    ELSE None
         IN  IF val # None THEN val ELSE EvalBinary(expr, var_values, i + 1)

\* an evaluator that looks the text up as a name before it looks for a sign
evaluate_lookup_first(expr0, var_values) ==
    LET expr == Strip(expr0)
    IN  IF Has(var_values, expr) THEN Get(var_values, expr)
        ELSE IF StartsWith(expr, "(int)")
        THEN LET val == evaluate_simple_expression(Strip(From(expr, 5)), var_values)
             IN  IF val # None THEN PyToInt(val) ELSE None
        ELSE IF StartsWith(expr, "(float)")
        THEN LET val == evaluate_simple_expression(Strip(From(expr, 7)), var_values)
             IN  IF val # None THEN PyToFloat(val) ELSE None
        ELSE IF StartsWith(expr, "-")
        THEN LET val == evaluate_simple_expression(Strip(From(expr, 1)), var_values)
             IN  IF val # None THEN PyNeg(val) ELSE None
        ELSE IF IsDigit(Remove(Remove(expr, "."), "-")) THEN Literal(expr)
        ELSE EvalBinary(expr, var_values, 1)

evaluate_simple_expression(expr0, var_values) ==
    LET expr == Strip(expr0)
    IN  IF StartsWith(expr, "(int)")
        THEN LET val == evaluate_simple_expression(Strip(From(expr, 5)), var_values)
             IN  IF val # None THEN PyToInt(val) ELSE None
        ELSE IF StartsWith(expr, "(float)")
        THEN LET val == evaluate_simple_expression(Strip(From(expr, 7)), var_values)
             IN  IF val # None THEN PyToFloat(val) ELSE None
        ELSE IF StartsWith(expr, "-")
        THEN LET val == evaluate_simple_expression(Strip(From(expr, 1)), var_values)
             IN  IF val # None THEN PyNeg(val) ELSE None
        ELSE IF Has(var_values, expr) THEN Get(var_values, expr)
        ELSE IF IsDigit(Remove(Remove(expr, "."), "-")) THEN Literal(expr)
        ELSE EvalBinary(expr, var_values, 1)

(***************************************************************************)
(* simulate_ir_execution: the state of one call                            *)
(***************************************************************************)

VARIABLES
    ir_lines,                 \* the argument: the lines of the IR text
    array_variables,          \* names found by the scan for `= *` lines
    has_incomplete_array_ops, \* the scan saw a line ending in `= *`
    label_to_index,           \* dict: label -> index into instructions
    instructions,             \* the normalized instruction list (the lines)
    var_values,               \* dict: variable -> value
    assignment_expressions,   \* dict: variable -> last expression text
    calc_steps,               \* the trace
    pc,                       \* 0-based index of the next instruction
    inst,                     \* the instruction the last iteration fetched
    iteration_count,
    has_array_operations,
    status,                   \* "called", "running", "returned" or "raised"
    return_val,               \* the second component of the returned pair
    compile_output,           \* what format_asm_output inserts after the call
    runs,                     \* the results of the calls made before this one
    evaluation,               \* a call of evaluate_simple_expression by itself
    is_compiling,             \* self.is_compiling
    compiler_available,       \* self.compiler_available
    ui,                       \* where the event loop is: "idle", or "writing"
                              \* inside compile_all, before the file is written
    filesystem,               \* the files of the working directory
    stage_cards,              \* the status of the six stage cards
    threads,                  \* the compile threads started, in order
    after_queue               \* the callbacks given to root.after(0, ...)

vars == <<ir_lines, array_variables, has_incomplete_array_ops, label_to_index,
          instructions, var_values, assignment_expressions, calc_steps, pc, inst,
          iteration_count, has_array_operations, status, return_val,
          compile_output, runs, evaluation, is_compiling, compiler_available,
          ui, filesystem, stage_cards, threads, after_queue>>

\* the state of the window that compile_all and its threads work on
gui == <<is_compiling, compiler_available, ui, filesystem, stage_cards, threads,
         after_queue>>

\* what simulate_ir_execution has no access to
outside == <<compile_output, runs, evaluation, gui>>

\* what the main loop never writes
scanned == <<ir_lines, array_variables, has_incomplete_array_ops, label_to_index,
             instructions>>

\* the six cards as create_stage_section makes them
PendingCards == [i \in 1..6 |-> "pending"]

\* the window after __init__, with the compiler found and nothing compiled
NoCompilation ==
    /\ is_compiling = FALSE
    /\ compiler_available = TRUE
    /\ ui = "idle"
    /\ filesystem = {}
    /\ stage_cards = PendingCards
    /\ threads = <<>>
    /\ after_queue = <<>>

max_iterations == 1000

\* the name before the `= *` taken for the array
ScannedAssignedVar(line_stripped) ==
    LET parts == Split(line_stripped, "= *")
    IN  IF Contains(line_stripped, "= *") /\ Len(parts) = 2
           /\ Strip(parts[1]) # "" /\ ~StartsWith(Strip(parts[1]), "t")
        THEN Strip(parts[1])
        ELSE ""

\* the name a stripped line adds to array_variables, "" when it adds none
ScannedArrayVar(line_stripped) ==
    LET parts == Split(line_stripped, "= *")
    IN  IF Contains(line_stripped, "= *") /\ Len(parts) >= 2 /\ Len(parts) = 2
           /\ Strip(parts[2]) # "" /\ ~StartsWith(Strip(parts[2]), "t")
        THEN Strip(parts[2])
        ELSE ""

\* the first loop over ir_lines: array_variables
ScanArrayVariables(lines) ==
    {ScannedArrayVar(Strip(lines[i])) : i \in 1..Len(lines)} \ {""}

\* the first loop over ir_lines: has_incomplete_array_ops
ScanIncompleteArrayOps(lines) ==
    \E i \in 1..Len(lines) : EndsWith(Strip(lines[i]), "= *") \/ Strip(lines[i]) = "*"

\* a stripped line that defines a label
IsLabelDefinition(line) == EndsWith(line, ":") /\ StartsWith(line, "L")

\* the declarations of functions and of main kept as instructions
IsInstructionOrMarker(line) == line # "" /\ ~IsLabelDefinition(line)

\* a stripped line that is appended to instructions
IsInstruction(line) ==
    /\ line # ""
    /\ ~IsLabelDefinition(line)
    /\ ~StartsWith(line, "function") /\ ~EndsWith(line, "main:") /\ ~(line = "main:")

\* str.rstrip(':')
RECURSIVE RStripColon(_)
RStripColon(s) ==
    IF EndsWith(s, ":") THEN RStripColon(SubSeq(s, 1, Len(s) - 1)) ELSE s

Stripped(lines) == [i \in 1..Len(lines) |-> Strip(lines[i])]

\* the second loop over ir_lines: instructions
BuildInstructions(lines) == SelectSeq(Stripped(lines), IsInstruction)

\* a label recorded one instruction too far
InstructionsBeforeOffByOne(lines, i) ==
    Len(BuildInstructions(SubSeq(lines, 1, i - 1))) + 1

\* len(instructions) when the loop reaches the i-th line
InstructionsBefore(lines, i) == Len(BuildInstructions(SubSeq(lines, 1, i - 1)))

\* the second loop over ir_lines: label_to_index; a label defined twice keeps
\* its place in the dict and takes the later index
BuildLabels(lines) ==
    LET defs == SelectSeq([i \in 1..Len(lines) |-> i],
                          LAMBDA i : Strip(lines[i]) # "" /\ IsLabelDefinition(Strip(lines[i])))
        name(i) == RStripColon(Strip(lines[i]))
        firsts == SelectSeq(defs, LAMBDA i : \A j \in 1..(i - 1) :
                                ~(Strip(lines[j]) # "" /\ IsLabelDefinition(Strip(lines[j]))
                                  /\ name(j) = name(i)))
        last(n) == CHOOSE i \in 1..Len(lines) :
                      /\ IsLabelDefinition(Strip(lines[i])) /\ name(i) = n
                      /\ \A j \in (i + 1)..Len(lines) :
                            ~(IsLabelDefinition(Strip(lines[j])) /\ name(j) = n)
    IN  [k \in 1..Len(firsts) |->
            [key |-> name(firsts[k]),
             value |-> InstructionsBefore(lines, last(name(firsts[k])))]]

(***************************************************************************)
(* simulate_ir_execution: the main loop                                    *)
(***************************************************************************)

\* the while condition with the cap tested one iteration late
LoopConditionOffByOne(pc_, count) ==
    pc_ < Len(instructions) /\ count <= max_iterations

\* the while condition
LoopCondition(pc_, count) == pc_ < Len(instructions) /\ count < max_iterations

\* instructions[pc]: the entry the classifier appended, {'line', 'index'}
Fetch == [line |-> instructions[pc + 1], index |-> pc]

\* inst before the first iteration binds it
Unbound == [line |-> "", index |-> -1]

\* inst['line'] of the instruction at pc
CurrentLine == Fetch.line

\* a loop body without the branch of the conditional jump
LineKindWithoutIf(line) ==
    IF EndsWith(line, ":") THEN "label"
    ELSE IF StartsWith(line, "jump ") THEN "jump"
    ELSE IF Contains(line, "=") /\ ~Contains(line, "return") THEN "assignment"
    ELSE IF StartsWith(line, "return") THEN "return"
    ELSE "other"

\* which branch of the loop body a line takes, in the order the code tests
LineKind(line) ==
    IF EndsWith(line, ":") THEN "label"
    ELSE IF StartsWith(line, "jump ") THEN "jump"
    ELSE IF StartsWith(line, "if ") THEN "if"
    ELSE IF Contains(line, "=") /\ ~Contains(line, "return") THEN "assignment"
    ELSE IF StartsWith(line, "return") THEN "return"
    ELSE "other"

\* the pc an unconditional jump to label sets
JumpTarget(label, labels, pc_) ==
    IF Has(labels, label) THEN Get(labels, label) ELSE pc_ + 1

\* an unknown target that leaves pc where it is
TargetIndexStay(target, labels, pc_) ==
    IF Has(labels, target) THEN Get(labels, target) ELSE pc_

\* label_to_index.get(target, pc + 1)
TargetIndex(target, labels, pc_) ==
    IF Has(labels, target) THEN Get(labels, target) ELSE pc_ + 1

\* a condition without a value counted as 1
CondValNoneIsOne(cond, values) ==
    LET v == evaluate_simple_expression(cond, values)
    IN  IF v = None THEN PyInt(1) ELSE v

\* cond_val of a conditional jump: the evaluated condition, 0 when it is None
CondVal(cond, values) ==
    LET v == evaluate_simple_expression(cond, values)
    IN  IF v = None THEN PyInt(0) ELSE v

\* the two comparisons with their tests exchanged
JumpTakenSwapped(op, cond_val) ==
    \/ op = "!=" /\ cond_val.num = 0
    \/ op = "==" /\ cond_val.num # 0

\* whether a conditional jump with operator op goes to its target
JumpTaken(op, cond_val) ==
    \/ op = "!=" /\ cond_val.num # 0
    \/ op = "==" /\ cond_val.num = 0

\* the pc a line `if ...` sets
IfTarget(line, labels, values, pc_) ==
    LET parts == SplitWs(line)
    IN  IF Len(parts) >= 6
        THEN LET cond == parts[2]
                 op == parts[3]
                 target == IF parts[5] = "goto" THEN parts[6] ELSE parts[5]
             IN  IF JumpTaken(op, CondVal(cond, values))
                 THEN TargetIndex(target, labels, pc_)
                 ELSE pc_ + 1
        ELSE pc_ + 1

\* var and expr of an assignment line
AssignVar(line) == Strip(SplitOnce(line, "=")[1])
AssignExpr(line) == Strip(SplitOnce(line, "=")[2])

\* no expression taken for a call
NoCallExpr(expr) == FALSE

\* 'call' in expr
IsCallExpr(expr) == Contains(expr, "call")

\* only a leading `*` taken for an array operation
IsDereference(expr) == StartsWith(expr, "*")

\* '*' in expr or expr.strip() == '*'
IsArrayExpr(expr) == Contains(expr, "*") \/ Strip(expr) = "*"

\* an expression recorded only when the line goes on to the evaluation
RecordComputable(exprs, var, expr) ==
    IF IsCallExpr(expr) \/ IsArrayExpr(expr) THEN exprs ELSE Put(exprs, var, expr)

\* assignment_expressions[var] = expr
RecordAssignment(exprs, var, expr) == Put(exprs, var, expr)

\* an expression without a value taken for 0
AssignedValueOrZero(expr, values) ==
    LET val == evaluate_simple_expression(expr, values)
    IN  IF val = None THEN PyInt(0) ELSE val

\* val = self.evaluate_simple_expression(expr, var_values)
AssignedValue(expr, values) == evaluate_simple_expression(expr, values)

\* a step put at the head of the trace
PrependStep(steps, var, val) ==
    IF ~StartsWith(var, "L") THEN <<var \o " = " \o PyStr(val)>> \o steps ELSE steps

\* if not var.startswith('L'): calc_steps.append(f"{var} = {val}")
AppendStep(steps, var, val) ==
    IF ~StartsWith(var, "L") THEN Append(steps, var \o " = " \o PyStr(val)) ELSE steps

\* int(expr) < 100 is reached with a text that isdigit() accepts and int() rejects
ArrayDeclRaises(var, expr) ==
    /\ has_incomplete_array_ops /\ IsDigit(expr) /\ ~StartsWith(var, "t")
    /\ ~IntParses(expr)

\* the filter without the limit of 100
IsArrayDeclOfAnySize(var, expr) ==
    \/ var \in array_variables /\ IsDigit(expr)
    \/ has_incomplete_array_ops /\ IsDigit(expr) /\ ~StartsWith(var, "t")

\* is_array_decl or is_probable_array_decl
IsArrayDecl(var, expr) ==
    \/ var \in array_variables /\ IsDigit(expr)
    \/ /\ has_incomplete_array_ops /\ IsDigit(expr) /\ ~StartsWith(var, "t")
       /\ ParseNat(expr) < 100

\* the expression of a return line
ReturnExpr(line) == Strip(Split(line, "return")[2])

\* temp_vars: the keys of var_values that start with 't', in dict order
TempVars(values) == SelectSeq(Keys(values), LAMBDA k : StartsWith(k, "t"))

\* the sort key int(x[1:]) if x[1:].isdigit() else 0
SortKey(x) == IF IsDigit(From(x, 1)) THEN ParseNat(From(x, 1)) ELSE 0

SortKeyRaises(x) == IsDigit(From(x, 1)) /\ ~IntParses(From(x, 1))

\* sorted(temp_vars, key=...): a stable sort
SortedVars(temp_vars) ==
    LET n == Len(temp_vars)
        rank(i) == 1 + Cardinality({j \in 1..n :
                        \/ SortKey(temp_vars[j]) < SortKey(temp_vars[i])
                        \/ SortKey(temp_vars[j]) = SortKey(temp_vars[i]) /\ j < i})
    IN  [r \in 1..n |-> temp_vars[CHOOSE i \in 1..n : rank(i) = r]]

\* sum(var_values[v] for v in temp_vars)
RECURSIVE SumValues(_, _)
SumValues(values, names) ==
    IF names = <<>> THEN PyInt(0)
    ELSE PyAdd(SumValues(values, SubSeq(names, 1, Len(names) - 1)),
               Get(values, names[Len(names)]))

\* has_call
HasCall(exprs) == \E i \in 1..Len(exprs) : Contains(exprs[i].value, "call")

\* the guess from the expression last assigned to the returned name
FromAssignment(expr, values, exprs) ==
    LET assign_expr == Get(exprs, expr)
        direct == evaluate_simple_expression(assign_expr, values)
        temp_vars == TempVars(values)
        sorted_vars == SortedVars(temp_vars)
    IN  IF direct = None /\ Contains(assign_expr, "+") /\ Len(temp_vars) >= 3
        THEN PyAdd(Get(values, sorted_vars[1]), Get(values, sorted_vars[3]))
        ELSE direct

\* whether the sort of the temporaries is reached with a name int() rejects
FromAssignmentRaises(expr, values, exprs) ==
    /\ ~Has(values, expr) /\ Has(exprs, expr)
    /\ evaluate_simple_expression(Get(exprs, expr), values) = None
    /\ Contains(Get(exprs, expr), "+")
    /\ Len(TempVars(values)) >= 3
    /\ \E i \in 1..Len(TempVars(values)) : SortKeyRaises(TempVars(values)[i])

\* return_val after the block `if has_array_operations and return_val is None`
Fallbacks(expr, values, exprs) ==
    LET first == IF Has(values, expr) THEN Get(values, expr)
                 ELSE IF Has(exprs, expr) THEN FromAssignment(expr, values, exprs)
                 ELSE None
        temp_vars == TempVars(values)
    IN  IF first = None /\ temp_vars # <<>> /\ HasCall(exprs)
        THEN SumValues(values, temp_vars)
        ELSE first

\* a return that gives 0 for an expression without a value
ReturnValueOrZero(expr, values, exprs, array_ops) ==
    LET direct == evaluate_simple_expression(expr, values)
    IN  IF direct = None THEN PyInt(0) ELSE direct

\* the value a return line returns
ReturnValue(expr, values, exprs, array_ops) ==
    LET direct == evaluate_simple_expression(expr, values)
        val == IF array_ops /\ direct = None THEN Fallbacks(expr, values, exprs)
               ELSE direct
    IN  IF array_ops /\ val = None THEN ARRAY_OPERATION ELSE val

ReturnRaises(expr, values, exprs, array_ops) ==
    /\ array_ops /\ evaluate_simple_expression(expr, values) = None
    /\ FromAssignmentRaises(expr, values, exprs)

(***************************************************************************)
(* The inputs: the IR texts a call is made with                            *)
(***************************************************************************)

\* longest run of freely chosen lines in a straight-line text
MaxLen == 3

\* longest run of freely chosen lines inside a loop body
MaxBody == 1

SeqsUpTo(S, n) == UNION {[1..k -> S] : k \in 0..n}

\* assignments and returns: literals, temporaries, calls, dereferences, a
\* line ending in `= *`, a digit character int() rejects
StraightLines ==
    {"x = 5", "arr = 5", "t0 = 1", "t1 = call f", "arr = *base", "a = *", "x = ^",
     "y = x + 1", "return 5", "return", "return arr", "return x"}

StraightPrograms == SeqsUpTo(StraightLines, MaxLen) \ {<<>>}

\* unconditional and conditional jumps: backward (L0), forward (L1), to a label
\* that is defined nowhere (L9), other operators and malformed shapes
JumpLines ==
    {"jump L0", "jump L1", "jump L9",
     "if x != 0 goto L0", "if x == 0 goto L0", "if x == 0 goto L1",
     "if x != 0 goto L9", "if x == 0 goto L9", "if x < 0 goto L0",
     "if x goto L0", "if x != 0 L1 end"}

BodyLines == {"x = x - 1", "x = ^", "end:"}

\* what follows the jump: the forward label last, a return before it, an
\* unrecognized line and a return after it
Rests == {<<"L1:">>, <<"return x", "L1:">>, <<"nop", "L1:", "return 7">>}

\* texts with a label before and a label after one jump
ControlPrograms ==
    {pre \o <<"L0:">> \o body \o <<j>> \o rest :
        pre \in {<<>>, <<"x = 5">>, <<"x = 0">>, <<"a = *">>},
        body \in SeqsUpTo(BodyLines, MaxBody),
        j \in JumpLines,
        rest \in Rests}

\* straight-line texts as long as the iteration cap
LongPrograms ==
    {[i \in 1..(n + 1) |-> IF i <= n THEN "x = 1" ELSE "return 5"] :
        n \in {max_iterations - 1, max_iterations}}

\* integer literals of an IR text
IntLiterals == {"0", "2", "3", "4", "12", "-3"}

\* two temporaries, their sum in a third, the third returned
SumPrograms ==
    {<<"t0 = " \o a, "t1 = " \o b, "t2 = t0 + t1", "return t2">> :
        a \in IntLiterals, b \in IntLiterals}

\* a variable assigned from a name that is bound only later, then returned;
\* with and without a dereference before it
ReplayPrograms ==
    {pre \o <<"x = y + 1", "y = " \o n, "return x">> :
        pre \in {<<>>, <<"a = *p">>}, n \in IntLiterals}

\* the expressions of the return lines: x is bound, q is not
ReturnExprs ==
    {"0", "x", "q", "-q", "(int)q", "x - 3", "x - x", "x + q", "q + x", "q * 0",
     "0 * q", "q == 0", "q < 1", "x - 3 == 0", "x / 0", "x / q", "2.5",
     "(float)x"}

\* one assignment and a return of an expression, with and without a
\* dereference before them
ReturnPrograms ==
    {pre \o <<"x = 3", "return " \o e>> :
        pre \in {<<>>, <<"a = *p">>}, e \in ReturnExprs}

\* assignments with a call marker, with a `*`, of integers below and at 100,
\* to a name that is dereferenced elsewhere and to a name that starts with L
MarkerLines ==
    {"z = x * y", "t1 = call f(*p)", "v = call g", "arr = *base", "arr = 5",
     "base = 5", "a = *", "n = 100", "n = 99", "Lx = 5"}

MarkerReturns == {"return z", "return arr", "return base", "return n"}

\* up to two such assignments, after two bound names or none, and a return
MarkerPrograms ==
    {pre \o body \o <<ret>> :
        pre \in {<<>>, <<"x = 3", "y = 4">>},
        body \in SeqsUpTo(MarkerLines, 2),
        ret \in MarkerReturns}

\* lines that are no instructions, and one that is
NoiseLines == {"", "  ", "main:", "function f", "L2:", "x = 1"}

\* a forward jump over such lines to a label among such lines
LabelPrograms ==
    {a \o <<"jump L1">> \o b \o <<"L1:">> \o c \o <<"x = 2", "return x">> :
        a \in SeqsUpTo(NoiseLines, 1),
        b \in SeqsUpTo(NoiseLines, 1),
        c \in SeqsUpTo(NoiseLines, 1)}

\* assignments to x whose expression has no value
KeepLines == {"x = q + 1", "x = 1 + 1 + 1", "x = 10-4", "x = x / 0", "x ="}

\* x is bound, assigned again without a value, read and returned
KeepPrograms ==
    {<<"x = 5", l, "y = x + 1", "return " \o e>> : l \in KeepLines, e \in {"x", "y"}}

Programs ==
    StraightPrograms \cup ControlPrograms \cup LongPrograms \cup SumPrograms
        \cup ReplayPrograms \cup ReturnPrograms \cup MarkerPrograms
        \cup LabelPrograms \cup KeepPrograms

(***************************************************************************)
(* The state machine                                                       *)
(***************************************************************************)

\* no call of evaluate_simple_expression by itself is under way
NoCall == [expr |-> "", var_values |-> <<>>, status |-> "none", val |-> None]

\* the frame of a call that has not run yet
Called ==
    /\ status = "called"
    /\ array_variables = {}
    /\ has_incomplete_array_ops = FALSE
    /\ label_to_index = <<>>
    /\ instructions = <<>>
    /\ var_values = <<>>
    /\ assignment_expressions = <<>>
    /\ calc_steps = <<>>
    /\ pc = 0
    /\ inst = Unbound
    /\ iteration_count = 0
    /\ has_array_operations = FALSE
    /\ return_val = None
    /\ compile_output = <<>>
    /\ runs = <<>>
    /\ evaluation = NoCall
    /\ NoCompilation

Init ==
    /\ ir_lines \in Programs
    /\ Called

\* a call that goes on with the values the call before it left
KeptValues == var_values

\* var_values = {}
NewValues == <<>>

\* the code before the main loop: the scan, the classifier, the locals
Begin ==
    /\ status = "called"
    /\ array_variables' = ScanArrayVariables(ir_lines)
    /\ has_incomplete_array_ops' = ScanIncompleteArrayOps(ir_lines)
    /\ label_to_index' = BuildLabels(ir_lines)
    /\ instructions' = BuildInstructions(ir_lines)
    /\ var_values' = NewValues
    /\ assignment_expressions' = <<>>
    /\ calc_steps' = <<>>
    /\ pc' = 0
    /\ iteration_count' = 0
    /\ has_array_operations' = FALSE
    /\ status' = "running"
    /\ UNCHANGED <<ir_lines, inst, return_val>>
    /\ UNCHANGED outside

\* one iteration of the loop is about to run on a line of the given kind
Executing(kind) ==
    /\ status = "running"
    /\ LoopCondition(pc, iteration_count)
    /\ LineKind(CurrentLine) = kind

\* a line ending in ':'
StepLabelLine ==
    /\ Executing("label")
    /\ iteration_count' = iteration_count + 1
    /\ inst' = Fetch
    /\ pc' = pc + 1
    /\ UNCHANGED <<scanned, var_values, assignment_expressions, calc_steps,
                   has_array_operations, status, return_val>>
    /\ UNCHANGED outside

\* jump <label>
StepJump ==
    /\ Executing("jump")
    /\ iteration_count' = iteration_count + 1
    /\ inst' = Fetch
    /\ pc' = JumpTarget(Strip(From(CurrentLine, 5)), label_to_index, pc)
    /\ UNCHANGED <<scanned, var_values, assignment_expressions, calc_steps,
                   has_array_operations, status, return_val>>
    /\ UNCHANGED outside

\* if <cond> <op> <const> goto <label>
StepIf ==
    /\ Executing("if")
    /\ iteration_count' = iteration_count + 1
    /\ inst' = Fetch
    /\ pc' = IfTarget(CurrentLine, label_to_index, var_values, pc)
    /\ UNCHANGED <<scanned, var_values, assignment_expressions, calc_steps,
                   has_array_operations, status, return_val>>
    /\ UNCHANGED outside

\* <var> = <expr>
StepAssignment ==
    /\ Executing("assignment")
    /\ iteration_count' = iteration_count + 1
    /\ inst' = Fetch
    /\ LET var == AssignVar(CurrentLine)
           expr == AssignExpr(CurrentLine)
           val == AssignedValue(expr, var_values)
       IN  /\ assignment_expressions' = RecordAssignment(assignment_expressions, var, expr)
           /\ IF IsCallExpr(expr)
              THEN /\ pc' = pc + 1
                   /\ UNCHANGED <<var_values, calc_steps, has_array_operations, status>>
              ELSE IF IsArrayExpr(expr)
              THEN /\ has_array_operations' = TRUE
                   /\ pc' = pc + 1
                   /\ UNCHANGED <<var_values, calc_steps, status>>
              ELSE IF ArrayDeclRaises(var, expr)
              THEN /\ status' = "raised"
                   /\ UNCHANGED <<var_values, calc_steps, has_array_operations, pc>>
              ELSE IF IsArrayDecl(var, expr)
              THEN /\ pc' = pc + 1
                   /\ UNCHANGED <<var_values, calc_steps, has_array_operations, status>>
              ELSE IF var # "" /\ expr # "" /\ val # None
              THEN /\ var_values' = Put(var_values, var, val)
                   /\ calc_steps' = AppendStep(calc_steps, var, val)
                   /\ pc' = pc + 1
                   /\ UNCHANGED <<has_array_operations, status>>
              ELSE /\ pc' = pc + 1
                   /\ UNCHANGED <<var_values, calc_steps, has_array_operations, status>>
    /\ UNCHANGED <<scanned, return_val>>
    /\ UNCHANGED outside

\* return <expr>
StepReturn ==
    /\ Executing("return")
    /\ iteration_count' = iteration_count + 1
    /\ inst' = Fetch
    /\ LET parts == Split(CurrentLine, "return")
           expr == ReturnExpr(CurrentLine)
       IN  IF Len(parts) > 1
           THEN IF ReturnRaises(expr, var_values, assignment_expressions,
                                has_array_operations)
                THEN status' = "raised" /\ UNCHANGED return_val
                ELSE /\ status' = "returned"
                     /\ return_val' = ReturnValue(expr, var_values,
                                                  assignment_expressions,
                                                  has_array_operations)
           ELSE status' = "returned" /\ return_val' = None
    /\ UNCHANGED <<scanned, var_values, assignment_expressions, calc_steps, pc,
                   has_array_operations>>
    /\ UNCHANGED outside

\* any other line
StepOther ==
    /\ Executing("other")
    /\ iteration_count' = iteration_count + 1
    /\ inst' = Fetch
    /\ pc' = pc + 1
    /\ UNCHANGED <<scanned, var_values, assignment_expressions, calc_steps,
                   has_array_operations, status, return_val>>
    /\ UNCHANGED outside

\* the loop ends without a return: return calc_steps, None
LoopExit ==
    /\ status = "running"
    /\ ~LoopCondition(pc, iteration_count)
    /\ status' = "returned"
    /\ return_val' = None
    /\ UNCHANGED <<scanned, var_values, assignment_expressions, calc_steps, pc,
                   inst, iteration_count, has_array_operations>>
    /\ UNCHANGED outside

(***************************************************************************)
(* format_asm_output: the report of the result, after the simulation       *)
(***************************************************************************)

\* the texts of the report, in ASCII: each stands for the Chinese text that
\* the code inserts at the line named
TraceHeading == "calculation: "                                  \* line 1102
IterationsOpen == "  (total "                                    \* line 1111
IterationsClose == " loop iterations)\n"                         \* line 1111
ArrayMessage == "program contains array operations\n"            \* line 1115
ArrayCompiled == "compiled to target code, can be executed\n"    \* line 1116
ReturnValueLabel == "program return value: "                     \* line 1118
NeutralCompiled == "compiled to target code\n"                   \* line 1120
NeutralRuns == "program can be executed\n"                       \* line 1121
CompileDone == "\ncompilation finished!\n"                       \* line 1123
Rule == "============================================================\n\n"

\* sep.join(list)
RECURSIVE Join(_, _)
Join(sep, list) ==
    IF list = <<>> THEN ""
    ELSE IF Len(list) = 1 THEN list[1]
    ELSE list[1] \o sep \o Join(sep, Tail(list))

\* compile_output.insert(tk.END, text, tag)
Insert(text, tag) == [text |-> text, tag |-> tag]

\* the display of the trace: all of it up to ten steps, the first and the
\* last five beyond
ShowSteps(steps) ==
    IF steps = <<>> THEN <<>>
    ELSE IF Len(steps) <= 10
    THEN <<Insert(TraceHeading, "#4ec9b0"),
           Insert(Join("; ", steps) \o "\n", "#cccccc")>>
    ELSE <<Insert(TraceHeading, "#4ec9b0"),
           Insert(Join("; ", SubSeq(steps, 1, 5)), "#cccccc"),
           Insert("; ...; ", "#cccccc"),
           Insert(Join("; ", SubSeq(steps, Len(steps) - 4, Len(steps))) \o "\n",
                  "#cccccc"),
           Insert(IterationsOpen \o NatToStr(Len(steps) \div 2) \o IterationsClose,
                  "#888")>>

\* an ending that tests the truth of the value: 0 gets the neutral message
ShowEndingTruthy(val) ==
    IF val = ARRAY_OPERATION
    THEN <<Insert(ArrayMessage, "#4ec9b0"), Insert(ArrayCompiled, "#cccccc")>>
    ELSE IF val # None /\ val.num # 0
    THEN <<Insert(ReturnValueLabel \o PyStr(val) \o "\n", "#107c10")>>
    ELSE <<Insert(NeutralCompiled, "#cccccc"), Insert(NeutralRuns, "#cccccc")>>

\* the ending of the report: the array message, the return value or the
\* neutral message
ShowEnding(val) ==
    IF val = ARRAY_OPERATION
    THEN <<Insert(ArrayMessage, "#4ec9b0"), Insert(ArrayCompiled, "#cccccc")>>
    ELSE IF val # None
    THEN <<Insert(ReturnValueLabel \o PyStr(val) \o "\n", "#107c10")>>
    ELSE <<Insert(NeutralCompiled, "#cccccc"), Insert(NeutralRuns, "#cccccc")>>

\* the lines of format_asm_output that follow the return of
\* simulate_ir_execution; an exception of the call leaves the function there
format_asm_output ==
    /\ status = "returned"
    /\ compile_output = <<>>
    /\ compile_output' = ShowSteps(calc_steps) \o ShowEnding(return_val)
                            \o <<Insert(CompileDone, "#107c10"), Insert(Rule, "#888")>>
    /\ UNCHANGED <<scanned, var_values, assignment_expressions, calc_steps, pc,
                   inst, iteration_count, has_array_operations, status,
                   return_val, runs, evaluation, gui>>

Next ==
    \/ Begin
    \/ StepLabelLine
    \/ StepJump
    \/ StepIf
    \/ StepAssignment
    \/ StepReturn
    \/ StepOther
    \/ LoopExit
    \/ format_asm_output

\* one call of simulate_ir_execution and the report of its result
Spec == Init /\ [][Next]_vars

(***************************************************************************)
(* Several calls, one after the other                                      *)
(***************************************************************************)

\* the calls of one behaviour
MaxRuns == 3

\* the texts of the repeated calls: straight lines, a loop that counts down,
\* a jump over a line, a cycle without return, a line that raises, a result
\* got from the sum of the temporaries
RunPrograms ==
    {<<"x = 5", "return x">>,
     <<"t0 = 1", "return t0">>,
     <<"t0 = 1", "t1 = call f", "arr = *base", "return arr">>,
     <<"nop", "return q">>,
     <<"x = 3", "L0:", "x = x - 1", "if x != 0 goto L0", "return x">>,
     <<"x = 0", "if x == 0 goto L1", "x = 7", "L1:", "end:", "return x">>,
     <<"L0:", "t5 = 2", "jump L1", "L1:">>,
     <<"a = *", "x = ^", "return x">>}

\* the last return took its value from a fallback, not from the evaluation
\* of its expression
HeuristicReturn ==
    /\ status = "returned"
    /\ inst # Unbound
    /\ LineKind(inst.line) = "return"
    /\ has_array_operations
    /\ evaluate_simple_expression(ReturnExpr(inst.line), var_values) = None
    /\ IsNumber(return_val)

\* the last return took its value from the evaluation of its expression
DirectReturn ==
    /\ status = "returned"
    /\ inst # Unbound
    /\ LineKind(inst.line) = "return"
    /\ evaluate_simple_expression(ReturnExpr(inst.line), var_values) # None

\* the call has ended and its caller went on
CallEnded ==
    \/ status = "raised"
    \/ status = "returned" /\ compile_output # <<>>

\* a further call: a new frame, whose locals hold nothing yet
CallAgain ==
    /\ CallEnded
    /\ Len(runs) < MaxRuns - 1
    /\ runs' = Append(runs, [ir_lines |-> ir_lines, status |-> status,
                             calc_steps |-> calc_steps, return_val |-> return_val,
                             heuristic |-> HeuristicReturn,
                             direct |-> DirectReturn])
    /\ ir_lines' \in RunPrograms
    /\ status' = "called"
    /\ inst' = Unbound
    /\ return_val' = None
    /\ compile_output' = <<>>
    /\ UNCHANGED <<array_variables, has_incomplete_array_ops, label_to_index,
                   instructions, var_values, assignment_expressions, calc_steps,
                   pc, iteration_count, has_array_operations, evaluation, gui>>

RunsInit ==
    /\ ir_lines \in RunPrograms
    /\ Called

RunsNext ==
    \/ Next
    \/ CallAgain

\* up to MaxRuns calls of simulate_ir_execution
RunsSpec == RunsInit /\ [][RunsNext]_vars

(***************************************************************************)
(* evaluate_simple_expression called by itself                             *)
(***************************************************************************)

\* operands: literals, names that are bound and a name that is not
Literals == {"0", "2", "3", "4", "10", "2.5"}

Operands == Literals \cup {"a", "b", "q"}

ArithmeticOperators == {"+", "-", "*", "/"}

RelationalOperators == {"<=", ">=", "<", ">", "==", "!="}

\* the blanks written around an operator
Spacings == {"", " "}

\* two operands and one operator
BinaryExpressions ==
    {l \o sp \o op \o sp \o r :
        l \in Operands, r \in Operands, sp \in Spacings,
        op \in ArithmeticOperators \cup RelationalOperators}

\* three operands and two operators
SmallOperands == {"1", "2", "4", "a"}

TernaryExpressions ==
    {l \o sp \o op1 \o sp \o m \o sp \o op2 \o sp \o r :
        l \in SmallOperands, m \in SmallOperands, r \in SmallOperands,
        sp \in Spacings,
        op1 \in ArithmeticOperators \cup RelationalOperators,
        op2 \in ArithmeticOperators \cup RelationalOperators}

\* what a sign or a cast is written before
Remainders ==
    Operands \cup {"3 - a", "3-4", "a * b", "1 + 2", "a + 2", "2 < a", "-3", "q + 1"}

\* a sign or a cast before an operand or an expression
PrefixedExpressions ==
    {pre \o e : pre \in {"-", "- ", "(int)", "(float)", "(int) -"},
                e \in Remainders}

\* an operand that is a negated literal
SignedExpressions ==
    {l \o sp \o op \o sp \o "-" \o r :
        l \in Literals, r \in Literals, sp \in Spacings,
        op \in ArithmeticOperators \cup RelationalOperators}

\* four operands, the first operator written again as the third
RepeatedExpressions ==
    {w \o " " \o op1 \o " " \o x \o " " \o op2 \o " " \o y \o " " \o op1 \o " " \o z :
        w \in {"1", "2"}, x \in {"1", "2"}, y \in {"1", "2"}, z \in {"1", "2"},
        op1 \in ArithmeticOperators \cup RelationalOperators,
        op2 \in ArithmeticOperators \cup RelationalOperators}

Expressions ==
    Operands \cup BinaryExpressions \cup TernaryExpressions
        \cup PrefixedExpressions \cup SignedExpressions \cup RepeatedExpressions
        \cup {"", " 7 ", "1.2.3", "^"}

\* the values of the names
Environments ==
    {<<>>,
     <<[key |-> "a", value |-> PyInt(5)], [key |-> "b", value |-> PyFloat(5, 2)]>>,
     <<[key |-> "a", value |-> PyInt(0)], [key |-> "b", value |-> PyInt(-2)]>>,
     <<[key |-> "a", value |-> PyInt(5)], [key |-> "-a", value |-> PyInt(7)]>>}

\* no call of simulate_ir_execution is under way
NoSimulation ==
    /\ ir_lines = <<>>
    /\ status = "none"
    /\ array_variables = {}
    /\ has_incomplete_array_ops = FALSE
    /\ label_to_index = <<>>
    /\ instructions = <<>>
    /\ var_values = <<>>
    /\ assignment_expressions = <<>>
    /\ calc_steps = <<>>
    /\ pc = 0
    /\ inst = Unbound
    /\ iteration_count = 0
    /\ has_array_operations = FALSE
    /\ return_val = None
    /\ compile_output = <<>>
    /\ runs = <<>>

EvalInit ==
    /\ NoSimulation
    /\ NoCompilation
    /\ evaluation \in [expr : Expressions, var_values : Environments,
                       status : {"called"}, val : {None}]

\* the call returns: no exception leaves it
Evaluate ==
    /\ evaluation.status = "called"
    /\ evaluation' =
          [evaluation EXCEPT
              !.status = "returned",
              !.val = evaluate_simple_expression(evaluation.expr,
                                                 evaluation.var_values)]
    /\ UNCHANGED <<scanned, var_values, assignment_expressions, calc_steps, pc,
                   inst, iteration_count, has_array_operations, status,
                   return_val, compile_output, runs, gui>>

EvalNext == Evaluate

\* one call of evaluate_simple_expression
EvalSpec == EvalInit /\ [][EvalNext]_vars

(***************************************************************************)
(* Properties                                                              *)
(***************************************************************************)

\* the call has ended, with a pair or with an exception
Finished == status \in {"returned", "raised"}

\* the last iteration executed a line of the given kind
Executed(kind) == inst # Unbound /\ LineKind(inst.line) = kind

\* a label-free, jump-free text: assignments, then `return <literal>`
StraightLineLiteralStream ==
    /\ instructions # <<>>
    /\ Len(instructions) = Len(ir_lines)
    /\ label_to_index = <<>>
    /\ \A i \in 1..(Len(instructions) - 1) : LineKind(instructions[i]) = "assignment"
    /\ LineKind(instructions[Len(instructions)]) = "return"
    /\ IntParses(ReturnExpr(instructions[Len(instructions)]))

\* C1: a run on assignments followed by `return <literal>` returns the value
\* of the literal, whatever the number of assignments.
C1_ReturnsLiteral ==
    (status = "returned" /\ StraightLineLiteralStream)
        => return_val = PyInt(ParseNat(ReturnExpr(instructions[Len(instructions)])))

\* the parts of a conditional jump line
IfParts(line) == SplitWs(line)

\* instruction i (1-based) jumps to a label at or before itself
JumpsBack(i) ==
    LET line == instructions[i]
        parts == IfParts(line)
        label == IF LineKind(line) = "jump" THEN Strip(From(line, 5))
                 ELSE IF Len(parts) >= 6
                 THEN (IF parts[5] = "goto" THEN parts[6] ELSE parts[5])
                 ELSE ""
    IN  /\ LineKind(line) \in {"jump", "if"}
        /\ Has(label_to_index, label)
        /\ Get(label_to_index, label) <= i - 1

\* the jumps form a cycle and the text holds no return at all
CycleWithoutReturn ==
    /\ status # "called"
    /\ \E i \in 1..Len(instructions) : JumpsBack(i)
    /\ \A i \in 1..Len(instructions) : LineKind(instructions[i]) # "return"

\* C2: a run on a text whose jumps form a cycle with no reachable return
\* halts within the iteration cap and its outcome is None.
C2_CycleEndsUnresolved ==
    CycleWithoutReturn
        => /\ status # "raised"
           /\ iteration_count <= max_iterations
           /\ status = "returned" => return_val = None

\* C3: the loop runs at most max_iterations iterations: every step of a
\* running call counts one iteration or ends the call, and the count never
\* passes the cap.
C3_IterationCap ==
    [][/\ iteration_count' <= max_iterations
       /\ status = "running"
            => \/ iteration_count' = iteration_count + 1
               \/ status' = "returned" /\ iteration_count' = iteration_count]_vars

\* C3 witness: a call ended by the cap, instructions still ahead of pc
C3_CapReached ==
    /\ status = "returned"
    /\ iteration_count = max_iterations
    /\ pc < Len(instructions)
    /\ Len(instructions) < max_iterations

\* C4: every call ends by returning a number, "ARRAY_OPERATION" or None; no
\* line makes it raise.
C4_AlwaysAResult ==
    /\ status # "raised"
    /\ status = "returned"
         => IsNumber(return_val) \/ return_val = ARRAY_OPERATION \/ return_val = None

\* C5: pc is an index into the instruction list or its length.
C5_PcInRange == pc \in 0..Len(instructions)

\* C5 witness: a jump over the rest of the list to a label defined after the
\* last instruction
C5_JumpedToEnd ==
    /\ status = "running"
    /\ Executed("jump")
    /\ pc = Len(instructions)
    /\ pc > inst.index + 1

\* C6: when `arr = *base` was executed and `return arr` is executed after
\* it, the outcome is "ARRAY_OPERATION".
C6_ArrayReturnIsSentinel ==
    (/\ status = "returned"
     /\ inst.line = "return arr"
     /\ Has(assignment_expressions, "arr")
     /\ Get(assignment_expressions, "arr") = "*base")
        => return_val = ARRAY_OPERATION

\* C7: a return whose expression the evaluator does not resolve, executed
\* with has_array_operations set, returns "ARRAY_OPERATION".
C7_UnresolvedReturnIsSentinel ==
    (/\ status = "returned"
     /\ Executed("return")
     /\ has_array_operations
     /\ evaluate_simple_expression(ReturnExpr(inst.line), var_values) = None)
        => return_val = ARRAY_OPERATION

\* C8: a return with an empty expression returns None, whatever var_values,
\* assignment_expressions and has_array_operations hold.
C8_EmptyReturnIsNone ==
    (/\ status = "returned"
     /\ Executed("return")
     /\ ReturnExpr(inst.line) = "")
        => return_val = None

\* the last iteration executed `if <cond> <op> <const> goto <label>` with a
\* label of the table
ExecutedWellFormedIf ==
    /\ Finished \/ status = "running"
    /\ Executed("if")
    /\ Len(IfParts(inst.line)) = 6
    /\ IfParts(inst.line)[5] = "goto"
    /\ Has(label_to_index, IfParts(inst.line)[6])

\* the value of the condition of the executed conditional jump, 0 when it
\* is not computable
ExecutedCondIsZero ==
    LET v == evaluate_simple_expression(IfParts(inst.line)[2], var_values)
    IN  v = None \/ v.num = 0

\* C9: a conditional jump with a resolvable label sets pc to the label's
\* index iff (op is != and cond is non-zero) or (op is == and cond is 0);
\* in every other case pc advances by exactly 1.
C9_ConditionalJump ==
    ExecutedWellFormedIf
        => LET op == IfParts(inst.line)[3]
               label == IfParts(inst.line)[6]
           IN  IF (op = "!=" /\ ~ExecutedCondIsZero) \/ (op = "==" /\ ExecutedCondIsZero)
               THEN pc = Get(label_to_index, label)
               ELSE pc = inst.index + 1

\* C9 witness: a condition whose computed value is 0 jumps under ==
C9_ZeroJumpsUnderEq ==
    /\ ExecutedWellFormedIf
    /\ IfParts(inst.line)[3] = "=="
    /\ evaluate_simple_expression(IfParts(inst.line)[2], var_values) = PyInt(0)
    /\ pc = Get(label_to_index, IfParts(inst.line)[6])
    /\ pc # inst.index + 1

\* the last iteration executed an unconditional jump to a label that is not
\* in the table
ExecutedUnresolvedJump ==
    /\ Executed("jump")
    /\ ~Has(label_to_index, Strip(From(inst.line, 5)))

\* the last iteration executed a conditional jump whose condition holds and
\* whose label is not in the table
ExecutedUnresolvedIf ==
    /\ Executed("if")
    /\ Len(IfParts(inst.line)) = 6
    /\ IfParts(inst.line)[5] = "goto"
    /\ ~Has(label_to_index, IfParts(inst.line)[6])
    /\ \/ IfParts(inst.line)[3] = "!=" /\ ~ExecutedCondIsZero
       \/ IfParts(inst.line)[3] = "==" /\ ExecutedCondIsZero

\* C10: a jump to a label that is not in the table does not raise and does
\* not end the run: pc advances by exactly 1 and the next instruction runs.
C10_UnresolvedJumpAdvances ==
    (ExecutedUnresolvedJump \/ ExecutedUnresolvedIf)
        => /\ status # "raised"
           /\ pc = inst.index + 1
           /\ status = "returned" => ~LoopCondition(pc, iteration_count)

\* C10 witness: a conditional jump that holds, to an unknown label, with the
\* next instruction about to run
C10_UnresolvedIfContinues ==
    /\ ExecutedUnresolvedIf
    /\ status = "running"
    /\ pc = inst.index + 1
    /\ LoopCondition(pc, iteration_count)

\* an integer literal: decimal digits, a minus sign before them or not
IsIntLiteral(s) ==
    IF StartsWith(s, "-") THEN IntParses(From(s, 1)) ELSE IntParses(s)

IntLiteralValue(s) ==
    IF StartsWith(s, "-") THEN -ParseNat(From(s, 1)) ELSE ParseNat(s)

\* the decimal text of an integer
IntStr(n) == IF n < 0 THEN "-" \o NatToStr(-n) ELSE NatToStr(n)

\* the text is `t0 = a`, `t1 = b`, `t2 = t0 + t1`, `return t2` for two
\* integer literals a and b
SumStream ==
    /\ Len(ir_lines) = 4
    /\ StartsWith(ir_lines[1], "t0 = ") /\ IsIntLiteral(From(ir_lines[1], 5))
    /\ StartsWith(ir_lines[2], "t1 = ") /\ IsIntLiteral(From(ir_lines[2], 5))
    /\ ir_lines[3] = "t2 = t0 + t1"
    /\ ir_lines[4] = "return t2"

\* C11: a run on `t0 = a`, `t1 = b`, `t2 = t0 + t1`, `return t2` returns, its
\* trace is exactly `t0 = a`, `t1 = b`, `t2 = a+b` in that order and its
\* return value is a+b.
C11_SumOfTemporaries ==
    SumStream
        => /\ status # "raised"
           /\ status = "returned"
                => LET a == IntLiteralValue(From(ir_lines[1], 5))
                       b == IntLiteralValue(From(ir_lines[2], 5))
                   IN  /\ calc_steps = <<"t0 = " \o IntStr(a), "t1 = " \o IntStr(b),
                                         "t2 = " \o IntStr(a + b)>>
                       /\ return_val = PyInt(a + b)

\* C11 witness: the run on 3 and 4 has returned 7
C11_ThreePlusFour ==
    /\ SumStream
    /\ ir_lines[1] = "t0 = 3" /\ ir_lines[2] = "t1 = 4"
    /\ status = "returned"
    /\ return_val = PyInt(7)
    /\ calc_steps = <<"t0 = 3", "t1 = 4", "t2 = 7">>

\* the exact value of a literal of Literals, as a fraction <<n, d>>
LiteralFraction(s) ==
    IF Contains(s, ".")
    THEN LET frac == SubSeq(s, Find(s, ".") + 1, Len(s))
         IN  <<ParseNat(Remove(s, ".")), Pow10(Len(frac))>>
    ELSE <<ParseNat(s), 1>>

\* val is the number n/d
IsFraction(val, n, d) == IsNumber(val) /\ val.num * d = n * val.den

\* val is what mathematics gives for l op r
ExactResult(val, l, op, r) ==
    LET x == LiteralFraction(l)
        y == LiteralFraction(r)
    IN  CASE op = "+" -> IsFraction(val, x[1] * y[2] + y[1] * x[2], x[2] * y[2])
          [] op = "-" -> IsFraction(val, x[1] * y[2] - y[1] * x[2], x[2] * y[2])
          [] op = "*" -> IsFraction(val, x[1] * y[1], x[2] * y[2])
          [] op = "/" -> IF y[1] = 0 THEN val = None
                         ELSE IsFraction(val, x[1] * y[2], x[2] * y[1])

\* C12: for two numeric literals joined by one of + - * /, with or without
\* blanks around the operator, evaluate_simple_expression returns the exact
\* result, and None for a division by zero.
C12_ArithmeticOfLiterals ==
    evaluation.status = "returned"
        => \A l \in Literals, r \in Literals, sp \in Spacings,
              op \in ArithmeticOperators :
                evaluation.expr = l \o sp \o op \o sp \o r
                    => ExactResult(evaluation.val, l, op, r)

\* the value of an operand: a bound name or a literal, None otherwise
OperandValue(s, env) ==
    IF Has(env, s) THEN Get(env, s)
    ELSE IF IntParses(s) \/ FloatParses(s)
    THEN PyFloat(LiteralFraction(s)[1], LiteralFraction(s)[2])
    ELSE None

\* whether the relation op holds of two numbers
Holds(op, x, y) ==
    CASE op = "<=" -> x.num * y.den <= y.num * x.den
      [] op = ">=" -> x.num * y.den >= y.num * x.den
      [] op = "<" -> x.num * y.den < y.num * x.den
      [] op = ">" -> x.num * y.den > y.num * x.den
      [] op = "==" -> x.num * y.den = y.num * x.den
      [] op = "!=" -> x.num * y.den # y.num * x.den

\* C13: for two computable operands joined by one of <= >= < > == !=, with
\* or without blanks around the operator, evaluate_simple_expression returns
\* the integer 1 when the relation holds and the integer 0 otherwise.
C13_RelationOfOperands ==
    evaluation.status = "returned"
        => \A l \in Operands, r \in Operands, sp \in Spacings,
              op \in RelationalOperators :
                LET x == OperandValue(l, evaluation.var_values)
                    y == OperandValue(r, evaluation.var_values)
                IN  (/\ evaluation.expr = l \o sp \o op \o sp \o r
                     /\ x # None /\ y # None)
                        => evaluation.val = PyInt(IF Holds(op, x, y) THEN 1 ELSE 0)

\* the last iteration executed a return whose expression the evaluator does
\* not resolve, has_array_operations being unset, while the expression last
\* assigned to the returned name evaluates now
ReplayableReturn ==
    /\ status = "returned"
    /\ Executed("return")
    /\ ~has_array_operations
    /\ evaluate_simple_expression(ReturnExpr(inst.line), var_values) = None
    /\ Has(assignment_expressions, ReturnExpr(inst.line))
    /\ evaluate_simple_expression(Get(assignment_expressions, ReturnExpr(inst.line)),
                                  var_values) # None

\* C14: a return whose expression does not resolve, with has_array_operations
\* unset, returns the value of the expression last assigned to the returned
\* name, evaluated in the current var_values, when that is a value.
C14_ReplaysAssignment ==
    ReplayableReturn
        => return_val =
              evaluate_simple_expression(
                  Get(assignment_expressions, ReturnExpr(inst.line)), var_values)

\* C15: a run that takes its return value from a fallback (the sum of the
\* first and third temporaries, the sum of all temporaries) and a run that
\* evaluates its return expression never give the same result.
C15_HeuristicIsDistinguishable ==
    \A i \in 1..Len(runs) :
        (\/ runs[i].heuristic /\ DirectReturn
         \/ runs[i].direct /\ HeuristicReturn)
            => ~(/\ runs[i].return_val = return_val
                 /\ runs[i].calc_steps = calc_steps)

\* the characters of a name
Letters ==
    {"a", "b", "c", "d", "e", "f", "g", "h", "i", "j", "k", "l", "m", "n", "o",
     "p", "q", "r", "s", "t", "u", "v", "w", "x", "y", "z", "_"}

\* the names an expression mentions: the maximal runs of letters and digits
\* that start with a letter, the type of a cast `(int)` or `(float)` excepted
Names(e) ==
    LET word(i) == CharAt(e, i) \in Letters \cup DecimalDigits
        name(i, j) ==
            /\ CharAt(e, i) \in Letters
            /\ \A k \in i..j : word(k)
            /\ i = 1 \/ ~word(i - 1)
            /\ j = Len(e) \/ ~word(j + 1)
            /\ ~(i > 1 /\ CharAt(e, i - 1) = "(" /\ j < Len(e) /\ CharAt(e, j + 1) = ")")
    IN  {SubSeq(e, i, j) : <<i, j>> \in {p \in (1..Len(e)) \X (1..Len(e)) :
                                            p[1] <= p[2] /\ name(p[1], p[2])}}

\* C16: a return whose expression mentions a name without a value evaluates
\* to None, never to a number; a return that evaluates to None (no
\* dereference executed) returns None, not 0; a return that evaluates to a
\* number, 0 included, returns that number; var_values holds numbers only.
C16_NoneIsNoNumber ==
    /\ \A i \in 1..Len(var_values) : IsNumber(var_values[i].value)
    /\ (status = "returned" /\ Executed("return"))
          => LET expr == ReturnExpr(inst.line)
                 v == evaluate_simple_expression(expr, var_values)
             IN  /\ (\E n \in Names(expr) : ~Has(var_values, n)) => v = None
                 /\ (v = None /\ ~has_array_operations) => return_val = None
                 /\ v # None => return_val = v

\* C16 witness: a return whose expression evaluates to 0 returned 0
C16_ZeroIsReturned ==
    /\ status = "returned"
    /\ Executed("return")
    /\ ReturnExpr(inst.line) = "x - x"
    /\ evaluate_simple_expression(ReturnExpr(inst.line), var_values) = PyInt(0)
    /\ return_val = PyInt(0)
    /\ return_val # None

\* the keys of a dict
KeySet(d) == {d[i].key : i \in 1..Len(d)}

\* C17: during a run var_values loses no key, and it gains a key only in an
\* iteration that executes an assignment.
C17_EnvironmentGrows ==
    [][status = "running"
         => /\ KeySet(var_values) \subseteq KeySet(var_values')
            /\ KeySet(var_values') # KeySet(var_values)
                  => LineKind(inst'.line) = "assignment"]_vars

\* C17 witness: two names have values and one of them was assigned twice
C17_TwoNamesOneOverwritten ==
    /\ status = "running"
    /\ Cardinality(KeySet(var_values)) = 2
    /\ Len(calc_steps) = 3

\* C18: a call starts its loop with empty var_values, assignment_expressions
\* and trace, pc = 0, iteration_count = 0 and has_array_operations unset,
\* whatever the calls before it left; a call on the text of an earlier call
\* ends as that call did, with the same trace and the same return value.
C18_RunsAreIndependent ==
    /\ (status = "running" /\ inst = Unbound)
          => /\ var_values = <<>>
             /\ assignment_expressions = <<>>
             /\ calc_steps = <<>>
             /\ pc = 0
             /\ iteration_count = 0
             /\ ~has_array_operations
    /\ Finished
          => \A i \in 1..Len(runs) :
                runs[i].ir_lines = ir_lines
                    => /\ runs[i].status = status
                       /\ status = "returned"
                            => /\ runs[i].calc_steps = calc_steps
                               /\ runs[i].return_val = return_val

\* C18 witness: a text run a second time, after a run of another text that
\* left values, a trace and the flag behind
C18_SameTextAfterAnother ==
    /\ status = "returned"
    /\ Len(runs) = 2
    /\ runs[1].ir_lines = ir_lines
    /\ runs[2].ir_lines = <<"t0 = 1", "t1 = call f", "arr = *base", "return arr">>
    /\ runs[2].ir_lines # ir_lines
    /\ calc_steps # <<>>
    /\ IsNumber(return_val)

\* the texts the report holds
Texts(out) == {out[i].text : i \in 1..Len(out)}

ShowsArrayEnding == ArrayMessage \in Texts(compile_output)

ShowsNumberEnding == \E t \in Texts(compile_output) : StartsWith(t, ReturnValueLabel)

ShowsNeutralEnding == NeutralCompiled \in Texts(compile_output)

\* C19: the report of a result shows exactly one ending: the array message
\* when the result is "ARRAY_OPERATION", the return value when it is a number
\* (0 included), the neutral message when it is None.
C19_OneEndingByKind ==
    compile_output # <<>>
        => /\ ShowsArrayEnding <=> return_val = ARRAY_OPERATION
           /\ ShowsNumberEnding <=> IsNumber(return_val)
           /\ ShowsNeutralEnding <=> return_val = None
           /\ return_val.kind = "int"
                => (ReturnValueLabel \o IntStr(return_val.num) \o "\n")
                       \in Texts(compile_output)

\* C19 witness: the report of the result 0 shows the return value 0
C19_ZeroIsShown ==
    /\ return_val = PyInt(0)
    /\ (ReturnValueLabel \o "0\n") \in Texts(compile_output)
    /\ ~ShowsNeutralEnding

\* the expression of the call is two operators, aop and rop, between three
\* operands
IsMixed(e, aop, rop) ==
    \E l \in SmallOperands, m \in SmallOperands, r \in SmallOperands,
       sp \in Spacings :
        \/ e = l \o sp \o aop \o sp \o m \o sp \o rop \o sp \o r
        \/ e = l \o sp \o rop \o sp \o m \o sp \o aop \o sp \o r

\* the 1 or 0 of the relation op between the values of the two sides of its
\* occurrence in e, None when a side has no value
RelationOfSides(e, env, op) ==
    LET parts == Split(e, op)
        left == evaluate_simple_expression(Strip(parts[1]), env)
        right == evaluate_simple_expression(Strip(parts[2]), env)
    IN  IF left = None \/ right = None THEN None
        ELSE PyInt(IF Holds(op, left, right) THEN 1 ELSE 0)

\* C20: the relational operators are tried before the arithmetic ones: an
\* expression of one relational and one arithmetic operator whose two sides
\* of the relational operator have values evaluates to the 1 or 0 of the
\* relation between them.
C20_RelationalOperatorsFirst ==
    evaluation.status = "returned"
        => \A aop \in ArithmeticOperators, rop \in RelationalOperators :
              (/\ Contains(evaluation.expr, aop) /\ Contains(evaluation.expr, rop)
               /\ IsMixed(evaluation.expr, aop, rop)
               /\ RelationOfSides(evaluation.expr, evaluation.var_values, rop) # None)
                  => evaluation.val =
                        RelationOfSides(evaluation.expr, evaluation.var_values, rop)

\* the text reaches the blocks of the binary operators: it has no cast and no
\* sign in front, is no bound name and does not look like a literal
ReachesOperators(expr, env) ==
    /\ ~StartsWith(expr, "(int)") /\ ~StartsWith(expr, "(float)")
    /\ ~StartsWith(expr, "-")
    /\ ~Has(env, expr)
    /\ ~IsDigit(Remove(Remove(expr, "."), "-"))

\* the place in Operators of the first operator the text is split at, 0 when
\* it is split at none
FirstSplit(expr) ==
    LET splits == {i \in 1..Len(Operators) : SplitsAt(expr, Operators[i])}
    IN  IF splits = {} THEN 0 ELSE CHOOSE i \in splits : \A j \in splits : i <= j

\* a side of the first split of the text has no value
FirstSplitHasNoneSide(expr, env) ==
    LET parts == Split(expr, Operators[FirstSplit(expr)])
    IN  /\ FirstSplit(expr) # 0
        /\ \/ evaluate_simple_expression(Strip(parts[1]), env) = None
           \/ evaluate_simple_expression(Strip(parts[2]), env) = None

\* C21: when the expression is split at the single occurrence of a binary
\* operator and a side of the split is not computable, the whole expression
\* is not computable: no later operator is tried as another split point.
C21_NoneSideEndsEvaluation ==
    evaluation.status = "returned"
        => LET expr == Strip(evaluation.expr)
           IN  (/\ ReachesOperators(expr, evaluation.var_values)
                /\ FirstSplitHasNoneSide(expr, evaluation.var_values))
                   => evaluation.val = None

\* the text is a chain of operands and binary operators with blanks between
IsChain(tokens) ==
    /\ Len(tokens) >= 3 /\ Len(tokens) % 2 = 1
    /\ \A i \in 1..Len(tokens) :
          IF i % 2 = 0
          THEN tokens[i] \in ArithmeticOperators \cup RelationalOperators
          ELSE tokens[i] \in Operands \cup SmallOperands

\* an operator of the chain is written more than once
RepeatsAnOperator(tokens) ==
    \E i \in 1..Len(tokens), j \in 1..Len(tokens) :
        i % 2 = 0 /\ j % 2 = 0 /\ i < j /\ tokens[i] = tokens[j]

\* C22: the evaluator never guesses a grouping: an expression in which an
\* operator occurs more than once is not computable, in every environment.
C22_NeverGuessesAGrouping ==
    evaluation.status = "returned"
        => LET tokens == SplitWs(evaluation.expr)
           IN  (IsChain(tokens) /\ RepeatsAnOperator(tokens))
                   => evaluation.val = None

\* val is the number v negated, of the same type
IsNegationOf(val, v) ==
    val.kind = v.kind /\ val.num = 0 - v.num /\ val.den = v.den

\* C23: the value of `-` followed by e is the negation of the value of the
\* whole of e, and None when e has no value; the sign is taken off before the
\* text is looked up as a name, read as a literal or split at an operator.
C23_UnaryMinusNegatesRemainder ==
    evaluation.status = "returned"
        => LET expr == Strip(evaluation.expr)
               env == evaluation.var_values
               rem == Strip(From(expr, 1))
               val == evaluate_simple_expression(rem, env)
           IN  StartsWith(expr, "-")
                   => /\ IF val = None THEN evaluation.val = None
                         ELSE IsNegationOf(evaluation.val, val)
                      /\ Has(env, rem) => IsNegationOf(evaluation.val, Get(env, rem))
                      /\ rem \in Literals
                            => IsFraction(evaluation.val, 0 - LiteralFraction(rem)[1],
                                          LiteralFraction(rem)[2])
                      /\ rem = "1 + 2" => evaluation.val = PyInt(-3)
                      /\ rem = "q + 1" => evaluation.val = None

\* C23 witness: `-a` is evaluated where both `a` and `-a` are bound, and the
\* result is the negated value of `a`.
C23_SignBeforeLookup ==
    /\ evaluation.status = "returned"
    /\ evaluation.expr = "-a"
    /\ Has(evaluation.var_values, "-a")
    /\ evaluation.val = PyInt(-5)

\* the last iteration executed a conditional jump of six words or more whose
\* condition has no value
ExecutedIfWithoutValue ==
    /\ Finished \/ status = "running"
    /\ Executed("if")
    /\ Len(IfParts(inst.line)) >= 6
    /\ evaluate_simple_expression(IfParts(inst.line)[2], var_values) = None

\* the label the executed conditional jump names
ExecutedIfLabel ==
    IF IfParts(inst.line)[5] = "goto" THEN IfParts(inst.line)[6]
    ELSE IfParts(inst.line)[5]

\* C24: a conditional jump whose condition is not computable behaves as one
\* whose condition is 0: under == it goes to its target, under != it
\* advances by 1; it does not raise and does not end the run.
C24_UnknownConditionIsZero ==
    ExecutedIfWithoutValue
        => /\ status # "raised"
           /\ IfParts(inst.line)[3] = "=="
                 => pc = IF Has(label_to_index, ExecutedIfLabel)
                         THEN Get(label_to_index, ExecutedIfLabel)
                         ELSE inst.index + 1
           /\ IfParts(inst.line)[3] = "!=" => pc = inst.index + 1
           /\ status = "returned" => ~LoopCondition(pc, iteration_count)

\* C24 witness: a condition without a value has jumped under ==
C24_UnknownJumpsUnderEq ==
    /\ ExecutedIfWithoutValue
    /\ IfParts(inst.line)[3] = "=="
    /\ Has(label_to_index, ExecutedIfLabel)
    /\ pc = Get(label_to_index, ExecutedIfLabel)
    /\ pc # inst.index + 1

\* the text before and the text after the first `=` of a line, without the
\* blanks around them
RawVar(line) == Strip(SubSeq(line, 1, Find(line, "=") - 1))
RawExpr(line) == Strip(SubSeq(line, Find(line, "=") + 1, Len(line)))

\* C25: after an executed assignment assignment_expressions[var] is the raw
\* text of its expression, in every branch the assignment takes: call
\* marker, `*`, array-size declaration, evaluation with and without a value.
C25_AssignmentIsLogged ==
    ((Finished \/ status = "running") /\ Executed("assignment"))
        => /\ Has(assignment_expressions, RawVar(inst.line))
           /\ Get(assignment_expressions, RawVar(inst.line)) = RawExpr(inst.line)

\* C25 witness: an assignment that the array-size filter skipped is logged
C25_FilteredIsLogged ==
    /\ status = "running"
    /\ Executed("assignment")
    /\ IsArrayDecl(RawVar(inst.line), RawExpr(inst.line))
    /\ ~Has(var_values, RawVar(inst.line))
    /\ Get(assignment_expressions, RawVar(inst.line)) = RawExpr(inst.line)

\* the loop is about to execute an assignment whose expression contains sub
ExecutingAssignmentWith(sub) ==
    Executing("assignment") /\ Contains(RawExpr(CurrentLine), sub)

\* the iteration changes neither var_values nor calc_steps and moves pc by 1
OnlyAdvances ==
    /\ var_values' = var_values
    /\ calc_steps' = calc_steps
    /\ pc' = pc + 1
    /\ status' = "running"

\* C26: an assignment whose expression contains the call marker leaves
\* var_values, the trace and has_array_operations as they are and advances
\* pc by exactly 1.
C26_CallIsOpaque ==
    [][ExecutingAssignmentWith("call")
          => OnlyAdvances /\ has_array_operations' = has_array_operations]_vars

\* C26 witness: a call whose argument holds a `*` was executed after two
\* stored assignments, and the flag is unset
C26_CallWithStarExecuted ==
    /\ status = "running"
    /\ Executed("assignment")
    /\ inst.line = "t1 = call f(*p)"
    /\ Len(var_values) = 2
    /\ ~has_array_operations
    /\ pc = inst.index + 1

\* C27 as stated: an assignment whose expression contains `*` sets
\* has_array_operations, leaves var_values and the trace as they are and
\* advances pc by 1.
C27_StarSetsFlag ==
    [][ExecutingAssignmentWith("*") => OnlyAdvances /\ has_array_operations']_vars

\* C27 amended: an assignment whose expression contains `*` and no call
\* marker sets has_array_operations, leaves var_values and the trace as they
\* are, also for a product of two known values, and advances pc by 1; once
\* set, the flag stays set.
C27_StarWithoutCallSetsFlag ==
    [][/\ (ExecutingAssignmentWith("*") /\ ~Contains(RawExpr(CurrentLine), "call"))
             => OnlyAdvances /\ has_array_operations'
       /\ has_array_operations => has_array_operations']_vars

\* C27 witness: a product of two bound names was executed: the flag is set
\* and the product is neither stored nor traced
C27_ProductNotEvaluated ==
    /\ status = "running"
    /\ Executed("assignment")
    /\ inst.line = "z = x * y"
    /\ Has(var_values, "x") /\ Has(var_values, "y") /\ ~Has(var_values, "z")
    /\ Len(calc_steps) = 2
    /\ has_array_operations

\* the names dereferenced in the text: what stands after the `= *` of a line
\* that holds one `= *`, when it is not empty and does not start with t
DereferencedNames(lines) ==
    LET name(l) == Strip(SubSeq(l, Find(l, "= *") + 3, Len(l)))
        marked == {i \in 1..Len(lines) :
                      /\ Count(Strip(lines[i]), "= *") = 1
                      /\ name(Strip(lines[i])) # ""
                      /\ CharAt(name(Strip(lines[i])), 1) # "t"}
    IN  {name(Strip(lines[i])) : i \in marked}

\* an integer literal written with decimal digits only
PlainInteger(expr) == IsDigit(expr) /\ IntParses(expr)

\* the most recent assignment to var had a `*` and no call marker
LastAssignedWithStar(var) ==
    /\ Has(assignment_expressions, var)
    /\ Contains(Get(assignment_expressions, var), "*")
    /\ ~Contains(Get(assignment_expressions, var), "call")

\* C28 as stated: the variable assigned from an expression with `*` is in
\* array_variables, and a later assignment of a plain integer to it is not
\* stored and adds no trace step.
C28_AssignedNameIsArray ==
    [][/\ (Executed("assignment") /\ LastAssignedWithStar(RawVar(inst.line)))
             => RawVar(inst.line) \in array_variables
       /\ (/\ Executing("assignment")
           /\ LastAssignedWithStar(RawVar(CurrentLine))
           /\ PlainInteger(RawExpr(CurrentLine)))
             => var_values' = var_values /\ calc_steps' = calc_steps]_vars

\* C28 amended: array_variables holds the names that are dereferenced in the
\* text (`v = *other` marks other, not v), from the start of the run; an
\* assignment of a plain integer to such a name, before or after the line
\* that dereferences it, is not stored and adds no trace step.
C28_DereferencedNameIsArray ==
    [][/\ status # "called" => array_variables = DereferencedNames(ir_lines)
       /\ (/\ Executing("assignment")
           /\ RawVar(CurrentLine) \in DereferencedNames(ir_lines)
           /\ PlainInteger(RawExpr(CurrentLine)))
             => OnlyAdvances]_vars

\* C28 witness: `base = 5` was skipped before the line `arr = *base` ran
C28_DeclarationBeforeDereference ==
    /\ status = "running"
    /\ Executed("assignment")
    /\ inst.line = "base = 5"
    /\ \E i \in 1..Len(ir_lines) : ir_lines[i] = "arr = *base"
    /\ ~has_array_operations
    /\ ~has_incomplete_array_ops
    /\ var_values = <<>> /\ calc_steps = <<>>

\* the text holds a line that ends in `= *` or is `*`
HasOpenDereference(lines) ==
    \E i \in 1..Len(lines) :
        LET l == Strip(lines[i])
        IN  l = "*" \/ (Len(l) >= 3 /\ SubSeq(l, Len(l) - 2, Len(l)) = "= *")

\* the loop is about to execute an assignment of a plain integer to a name
\* that does not start with t and is not in array_variables
ExecutingIntegerAssignment ==
    /\ Executing("assignment")
    /\ PlainInteger(RawExpr(CurrentLine))
    /\ RawVar(CurrentLine) # ""
    /\ CharAt(RawVar(CurrentLine), 1) # "t"
    /\ RawVar(CurrentLine) \notin array_variables

\* the iteration stores the integer and, for a name that does not start
\* with L, adds the step to the trace
StoresInteger ==
    LET var == RawVar(CurrentLine)
        n == ParseNat(RawExpr(CurrentLine))
    IN  /\ var_values' = Put(var_values, var, PyInt(n))
        /\ calc_steps' = IF CharAt(var, 1) = "L" THEN calc_steps
                         ELSE Append(calc_steps, var \o " = " \o NatToStr(n))
        /\ pc' = pc + 1
        /\ status' = "running"

\* C29 as stated: such an assignment of an integer below 100 that is
\* executed before any array operation was observed in the run is
\* evaluated, stored and traced.
C29_FilterNeedsEarlierDereference ==
    [][(/\ ExecutingIntegerAssignment
        /\ ParseNat(RawExpr(CurrentLine)) < 100
        /\ CharAt(RawVar(CurrentLine), 1) # "L"
        /\ ~has_array_operations)
          => StoresInteger]_vars

\* C29 amended: such an assignment is skipped exactly when the integer is
\* below 100 and the text of the run holds a line ending in `= *`, before
\* or after the assignment and executed or not; otherwise it is evaluated,
\* stored and, unless the name starts with L, traced.
C29_FilterByScanOfText ==
    [][ExecutingIntegerAssignment
          => IF HasOpenDereference(ir_lines) /\ ParseNat(RawExpr(CurrentLine)) < 100
             THEN OnlyAdvances
             ELSE StoresInteger]_vars

\* C29 witness: `x = 5` was skipped although no array operation had been
\* executed: the line ending in `= *` stands after it
C29_FilteredBeforeDereference ==
    /\ status = "running"
    /\ Executed("assignment")
    /\ inst.line = "x = 5"
    /\ inst.index = 0
    /\ has_incomplete_array_ops
    /\ ~has_array_operations
    /\ var_values = <<>> /\ calc_steps = <<>>

\* a line of the text, without the blanks around it
TextLine(i) == Strip(ir_lines[i])

\* the line defines a label: L first, a colon last
DefinesLabel(l) == l # "" /\ CharAt(l, 1) = "L" /\ CharAt(l, Len(l)) = ":"

\* the line is a real instruction: not blank, no label definition, no
\* `function ...` line and no line ending in `main:`
IsReal(l) ==
    /\ l # ""
    /\ ~DefinesLabel(l)
    /\ ~(Len(l) >= 8 /\ SubSeq(l, 1, 8) = "function")
    /\ ~(Len(l) >= 5 /\ SubSeq(l, Len(l) - 4, Len(l)) = "main:")

\* the number of real instructions among the lines before line i
RealBefore(i) == Cardinality({j \in 1..(i - 1) : IsReal(TextLine(j))})

\* line i is the last line of the text that defines the label called name
LastDefinition(i, name) ==
    /\ TextLine(i) = name \o ":"
    /\ DefinesLabel(TextLine(i))
    /\ \A j \in (i + 1)..Len(ir_lines) : TextLine(j) # name \o ":"

\* C30: a label definition emits no instruction and maps its label to the
\* number of instructions before it, which is the place of the next real
\* instruction after it, whatever blank lines and function or main lines
\* stand between; the instructions keep the order of the text; a jump to a
\* defined label sets pc to that number. A label defined twice maps to its
\* last definition.
C30_LabelsIndexInstructions ==
    status # "called"
        => /\ instructions = SelectSeq([i \in 1..Len(ir_lines) |-> TextLine(i)], IsReal)
           /\ \A i \in 1..Len(ir_lines) :
                 DefinesLabel(TextLine(i))
                     => LET name == SubSeq(TextLine(i), 1, Len(TextLine(i)) - 1)
                        IN  /\ Has(label_to_index, name)
                            /\ LastDefinition(i, name)
                                  => /\ Get(label_to_index, name) = RealBefore(i)
                                     /\ \A j \in (i + 1)..Len(ir_lines) :
                                           (/\ IsReal(TextLine(j))
                                            /\ \A k \in (i + 1)..(j - 1) : ~IsReal(TextLine(k)))
                                               => instructions[Get(label_to_index, name) + 1]
                                                     = TextLine(j)
           /\ Executed("jump")
                 => \A i \in 1..Len(ir_lines) :
                       LastDefinition(i, Strip(SubSeq(inst.line, 6, Len(inst.line))))
                           => pc = RealBefore(i)

\* C30 witness: a jump over an instruction to a label that is followed by a
\* blank line, in a text that starts with `main:`, has set pc to the place
\* of the instruction after the blank line
C30_JumpOverMarkers ==
    /\ status = "running"
    /\ ir_lines = <<"main:", "jump L1", "x = 1", "L1:", "", "x = 2", "return x">>
    /\ Executed("jump")
    /\ pc = 2
    /\ instructions[pc + 1] = "x = 2"

\* the loop is about to execute an assignment that is no call, has no `*`, is
\* not skipped as an array-size declaration and whose expression has a value
ExecutingComputableAssignment ==
    /\ Executing("assignment")
    /\ RawVar(CurrentLine) # ""
    /\ ~Contains(RawExpr(CurrentLine), "call")
    /\ ~Contains(RawExpr(CurrentLine), "*")
    /\ ~(RawVar(CurrentLine) \in DereferencedNames(ir_lines) /\ IsDigit(RawExpr(CurrentLine)))
    /\ ~(/\ HasOpenDereference(ir_lines) /\ IsDigit(RawExpr(CurrentLine))
         /\ CharAt(RawVar(CurrentLine), 1) # "t")
    /\ evaluate_simple_expression(RawExpr(CurrentLine), var_values) # None

\* the trace steps of the variable var, in the order of the trace
StepsOf(steps, var) ==
    SelectSeq(steps, LAMBDA step : StartsWith(step, var \o " = "))

\* every variable of var_values that does not start with L has a trace step,
\* and its last one shows the value var_values holds for it
LastStepShowsValue(values, steps) ==
    \A i \in 1..Len(values) :
        CharAt(values[i].key, 1) # "L"
            => LET own == StepsOf(steps, values[i].key)
               IN  /\ own # <<>>
                   /\ own[Len(own)] = values[i].key \o " = " \o PyStr(values[i].value)

\* C31: an executed assignment that is no call, no dereference and no
\* filtered declaration and whose expression has a value stores the value
\* and appends exactly one step `var = value` to the trace (none for a name
\* that starts with L); in every state the last step of a variable shows
\* the value var_values holds for it.
C31_StoredAndTraced ==
    [][/\ ExecutingComputableAssignment
             => LET var == RawVar(CurrentLine)
                    val == evaluate_simple_expression(RawExpr(CurrentLine), var_values)
                IN  /\ var_values' = Put(var_values, var, val)
                    /\ calc_steps' =
                          IF CharAt(var, 1) = "L" THEN calc_steps
                          ELSE calc_steps \o <<var \o " = " \o PyStr(val)>>
       /\ LastStepShowsValue(var_values, calc_steps)
       /\ LastStepShowsValue(var_values', calc_steps')]_vars

\* C31 witness: x was assigned twice, and the trace ends with its second value
C31_SecondValueIsLast ==
    /\ status = "running"
    /\ Executed("assignment")
    /\ inst.line = "x = x - 1"
    /\ calc_steps = <<"x = 5", "x = 4">>
    /\ Has(var_values, "x")
    /\ Get(var_values, "x") = PyInt(4)

\* the line is a jump, a conditional jump, a line ending in a colon, or a
\* line that is neither an assignment nor a return
IsControlOrUnrecognized(line) ==
    \/ CharAt(line, Len(line)) = ":"
    \/ Len(line) >= 5 /\ SubSeq(line, 1, 5) = "jump "
    \/ Len(line) >= 3 /\ SubSeq(line, 1, 3) = "if "
    \/ /\ ~(Contains(line, "=") /\ ~Contains(line, "return"))
       /\ ~(Len(line) >= 6 /\ SubSeq(line, 1, 6) = "return")

\* C32: executing a jump, a conditional jump, taken or not, a line ending in
\* a colon or an unrecognized line changes pc and iteration_count only:
\* var_values, assignment_expressions, has_array_operations and the trace
\* stay as they are.
C32_ControlLinesChangeOnlyPc ==
    [][(/\ status = "running"
        /\ LoopCondition(pc, iteration_count)
        /\ IsControlOrUnrecognized(instructions[pc + 1]))
          => /\ var_values' = var_values
             /\ assignment_expressions' = assignment_expressions
             /\ has_array_operations' = has_array_operations
             /\ calc_steps' = calc_steps
             /\ iteration_count' = iteration_count + 1
             /\ status' = "running"]_vars

\* C32 witness: a conditional jump was taken in a run that has values, logged
\* expressions and trace steps
C32_TakenJumpKeepsValues ==
    /\ status = "running"
    /\ Executed("if")
    /\ pc # inst.index + 1
    /\ var_values # <<>>
    /\ assignment_expressions # <<>>
    /\ calc_steps # <<>>

\* the text after the word return of a line that starts with it
RawReturn(line) == Strip(SubSeq(line, 7, Len(line)))

\* C33: an executed assignment whose expression has no value leaves
\* var_values and the trace as they are, so a variable keeps the value it
\* had; a return of a variable that has a value returns that value.
C33_FailedAssignmentKeepsValue ==
    [][/\ (/\ Executing("assignment")
           /\ evaluate_simple_expression(RawExpr(CurrentLine), var_values) = None)
             => var_values' = var_values /\ calc_steps' = calc_steps
       /\ (/\ Executing("return")
           /\ Count(CurrentLine, "return") = 1
           /\ Has(var_values, RawReturn(CurrentLine)))
             => /\ status' = "returned"
                /\ return_val' = Get(var_values, RawReturn(CurrentLine))
                /\ calc_steps' = calc_steps]_vars

\* C33 witness: x = 5, then x assigned from the unbound q, then y = x + 1
\* and return y: the result is 6 and the trace holds no second step of x
C33_EarlierValueIsRead ==
    /\ status = "returned"
    /\ ir_lines = <<"x = 5", "x = q + 1", "y = x + 1", "return y">>
    /\ return_val = PyInt(6)
    /\ calc_steps = <<"x = 5", "y = 6">>

(***************************************************************************)
(* compile_all, the thread it starts and the callbacks the thread gives    *)
(* to the event loop                                                       *)
(***************************************************************************)

\* the threads of one behaviour
MaxCompiles == 2

\* temp_file = "temp_gui_compile.sy"
temp_file == "temp_gui_compile.sy"

\* asm_file = temp_file.replace('.sy', '.s')
asm_file == "temp_gui_compile.s"

\* the list stages of run_compilation: the name (in ASCII for the Chinese
\* name), the flags and the card of each stage
stages ==
    << [stage_name |-> "lexical analysis", args |-> <<"-lex">>,
        stage_widget |-> "stage_lexical"],
       [stage_name |-> "syntax analysis", args |-> <<"-ast">>,
        stage_widget |-> "stage_syntax"],
       [stage_name |-> "semantic analysis", args |-> <<"-semantic">>,
        stage_widget |-> "stage_semantic"],
       [stage_name |-> "intermediate code", args |-> <<"-ir">>,
        stage_widget |-> "stage_ir"],
       [stage_name |-> "optimization", args |-> <<"-optimize">>,
        stage_widget |-> "stage_optimize"],
       [stage_name |-> "target code", args |-> <<"-ir", "-asm">>,
        stage_widget |-> "stage_target"] >>

\* what the editor can hold when the button is pressed
Codes == {"", "int main() { return 0; }"}

\* how open and write of the temporary file can end
WriteOutcomes == {"written", "open_failed", "write_failed"}

\* how the subprocess of run_compiler_stage can end: exit code 0, another
\* exit code, TimeoutExpired, FileNotFoundError, any other exception
Outcomes == {"success", "failure", "timeout", "not_found", "exception"}

\* the texts of append_output, in ASCII for the texts of the code
StageStarted(n) == "\n> " \o n \o "...\n"
StageCompleted(n) == "ok " \o n \o " done\n"
StageFailed(n) == "x " \o n \o " failed\n"
SummaryRule == "\n==================================================\n"
CompileSucceeded == "ok compilation finished!\n"
CompileWithErrors == "! compilation finished, with errors\n"

\* the callbacks given to root.after(0, ...)
SetStatus(idx, st) == [call |-> "set_status", stage |-> idx, arg |-> st, tag |-> ""]
AppendOutput(text, color) == [call |-> "append_output", stage |-> 0, arg |-> text, tag |-> color]
DistributeOutput(idx) == [call |-> "distribute_output", stage |-> idx, arg |-> "", tag |-> ""]
ResetCompiling == [call |-> "setattr", stage |-> 0, arg |-> "is_compiling", tag |-> ""]

\* a thread as thread.start() leaves it
StartedThread == [pc |-> "announce", idx |-> 1, all_success |-> TRUE, error_occurred |-> FALSE]

\* a thread that has stages to run or a stage running
InStages(t) == t.pc \in {"announce", "invoke", "subprocess"}

\* the simulation, which compile_all and its thread leave alone here
simulation == <<scanned, var_values, assignment_expressions, calc_steps, pc, inst,
                iteration_count, has_array_operations, status, return_val, runs,
                evaluation>>

\* a call goes on whatever the flag is
MayCompileAlways(compiling) == TRUE

\* if self.is_compiling: ... return
MayCompile(compiling) == ~compiling

\* compile_all up to the reset of the cards: the three early returns, or the
\* flag set, the output emptied and the cards reset
compile_all ==
    /\ ui = "idle"
    /\ \E code \in Codes :
          IF ~compiler_available \/ code = "" \/ ~MayCompile(is_compiling)
          THEN UNCHANGED vars
          ELSE /\ Len(threads) < MaxCompiles
               /\ is_compiling' = TRUE
               /\ compile_output' = <<>>
               /\ stage_cards' = PendingCards
               /\ ui' = "writing"
               /\ UNCHANGED <<simulation, compiler_available, filesystem, threads,
                              after_queue>>

\* compile_all from the write of the temporary file: the thread started, or
\* the flag cleared when the file cannot be saved
compile_all_write ==
    /\ ui = "writing"
    /\ ui' = "idle"
    /\ \E outcome \in WriteOutcomes :
          /\ filesystem' = IF outcome = "open_failed" THEN filesystem
                           ELSE filesystem \cup {temp_file}
          /\ IF outcome = "written"
             THEN /\ threads' = Append(threads, StartedThread)
                  /\ UNCHANGED is_compiling
             ELSE /\ is_compiling' = FALSE
                  /\ UNCHANGED threads
    /\ UNCHANGED <<simulation, compile_output, compiler_available, stage_cards,
                   after_queue>>

\* the event loop runs the oldest callback
RunCallback ==
    /\ ui = "idle"
    /\ after_queue # <<>>
    /\ LET c == Head(after_queue) IN
          /\ after_queue' = Tail(after_queue)
          /\ stage_cards' = IF c.call = "set_status"
                            THEN [stage_cards EXCEPT ![c.stage] = c.arg]
                            ELSE stage_cards
          /\ compile_output' = IF c.call = "append_output"
                               THEN Append(compile_output, Insert(c.arg, c.tag))
                               ELSE compile_output
          /\ is_compiling' = IF c.call = "setattr" THEN FALSE ELSE is_compiling
    /\ UNCHANGED <<simulation, compiler_available, ui, filesystem, threads>>

\* the head of the loop body: the card set running and the stage announced
Announce(w) ==
    /\ w \in 1..Len(threads)
    /\ threads[w].pc = "announce"
    /\ after_queue' = after_queue \o
          <<SetStatus(threads[w].idx, "running"),
            AppendOutput(StageStarted(stages[threads[w].idx].stage_name), "#007acc")>>
    /\ threads' = [threads EXCEPT ![w].pc = "invoke"]
    /\ UNCHANGED <<simulation, compile_output, is_compiling, compiler_available,
                   ui, filesystem, stage_cards>>

\* the callbacks after a stage
ResultCallbacks(idx, success) ==
    (IF success
     THEN <<SetStatus(idx, "completed"),
            AppendOutput(StageCompleted(stages[idx].stage_name), "#107c10")>>
     ELSE <<SetStatus(idx, "error"),
            AppendOutput(StageFailed(stages[idx].stage_name), "#d13438")>>)
    \o <<DistributeOutput(idx)>>

\* the loop left at the first stage that fails
AfterStageStopping(t, success) ==
    [t EXCEPT !.all_success = @ /\ success,
              !.error_occurred = @ \/ ~success,
              !.idx = IF t.idx < Len(stages) /\ success THEN @ + 1 ELSE @,
              !.pc = IF t.idx < Len(stages) /\ success THEN "announce" ELSE "summary"]

\* the rest of the loop body: the flags, and the next stage whatever the
\* stage returned
AfterStage(t, success) ==
    [t EXCEPT !.all_success = @ /\ success,
              !.error_occurred = @ \/ ~success,
              !.idx = IF t.idx < Len(stages) THEN @ + 1 ELSE @,
              !.pc = IF t.idx < Len(stages) THEN "announce" ELSE "summary"]

\* run_compiler_stage entered: without a compiler it returns at once, else
\* the subprocess is started
Invoke(w) ==
    /\ w \in 1..Len(threads)
    /\ threads[w].pc = "invoke"
    /\ IF compiler_available
       THEN /\ threads' = [threads EXCEPT ![w].pc = "subprocess"]
            /\ UNCHANGED after_queue
       ELSE /\ threads' = [threads EXCEPT ![w] = AfterStage(@, FALSE)]
            /\ after_queue' = after_queue \o ResultCallbacks(threads[w].idx, FALSE)
    /\ UNCHANGED <<simulation, compile_output, is_compiling, compiler_available,
                   ui, filesystem, stage_cards>>

\* the subprocess ends and run_compiler_stage returns
Return(w) ==
    /\ w \in 1..Len(threads)
    /\ threads[w].pc = "subprocess"
    /\ \E outcome \in Outcomes :
          LET success == outcome = "success" IN
          /\ compiler_available' = (compiler_available /\ outcome # "not_found")
          /\ filesystem' = IF success /\ temp_file \in filesystem
                                /\ \E k \in 1..Len(stages[threads[w].idx].args) :
                                       stages[threads[w].idx].args[k] = "-asm"
                           THEN filesystem \cup {asm_file}
                           ELSE filesystem
          /\ threads' = [threads EXCEPT ![w] = AfterStage(@, success)]
          /\ after_queue' = after_queue \o ResultCallbacks(threads[w].idx, success)
    /\ UNCHANGED <<simulation, compile_output, is_compiling, ui, stage_cards>>

\* the summary without the callback that clears the flag
SummaryCallbacksWithoutReset(t) ==
    <<AppendOutput(SummaryRule, "#888")>>
    \o (IF t.all_success THEN <<AppendOutput(CompileSucceeded, "#107c10")>>
        ELSE IF t.error_occurred THEN <<AppendOutput(CompileWithErrors, "#d83b01")>>
        ELSE <<>>)

\* the callbacks after the loop: the rule, the summary, the flag cleared
SummaryCallbacks(t) ==
    <<AppendOutput(SummaryRule, "#888")>>
    \o (IF t.all_success THEN <<AppendOutput(CompileSucceeded, "#107c10")>>
        ELSE IF t.error_occurred THEN <<AppendOutput(CompileWithErrors, "#d83b01")>>
        ELSE <<>>)
    \o <<ResetCompiling>>

Summary(w) ==
    /\ w \in 1..Len(threads)
    /\ threads[w].pc = "summary"
    /\ after_queue' = after_queue \o SummaryCallbacks(threads[w])
    /\ threads' = [threads EXCEPT ![w].pc = "cleanup"]
    /\ UNCHANGED <<simulation, compile_output, is_compiling, compiler_available,
                   ui, filesystem, stage_cards>>

\* the files removed, and the thread over
Cleanup(w) ==
    /\ w \in 1..Len(threads)
    /\ threads[w].pc = "cleanup"
    /\ filesystem' = filesystem \ {temp_file, asm_file}
    /\ threads' = [threads EXCEPT ![w].pc = "done"]
    /\ UNCHANGED <<simulation, compile_output, is_compiling, compiler_available,
                   ui, stage_cards, after_queue>>

\* the window after __init__, with or without the compiler
CompileInit ==
    /\ NoSimulation
    /\ evaluation = NoCall
    /\ is_compiling = FALSE
    /\ compiler_available \in BOOLEAN
    /\ ui = "idle"
    /\ filesystem = {}
    /\ stage_cards = PendingCards
    /\ threads = <<>>
    /\ after_queue = <<>>

CompileNext ==
    \/ compile_all
    \/ compile_all_write
    \/ RunCallback
    \/ \E w \in 1..MaxCompiles : Announce(w)
    \/ \E w \in 1..MaxCompiles : Invoke(w)
    \/ \E w \in 1..MaxCompiles : Return(w)
    \/ \E w \in 1..MaxCompiles : Summary(w)
    \/ \E w \in 1..MaxCompiles : Cleanup(w)

\* the button pressed at any time, the threads and the event loop at any speed
CompileSpec == CompileInit /\ [][CompileNext]_vars

\* a step of thread w
ThreadStep(w) == Announce(w) \/ Invoke(w) \/ Return(w) \/ Summary(w) \/ Cleanup(w)

\* the same, with a handler that returns once entered, an event loop that
\* keeps running callbacks, and threads that keep running: a subprocess ends
\* by itself or by its timeout of 30 seconds
CompileFairSpec ==
    /\ CompileInit
    /\ [][CompileNext]_vars
    /\ WF_vars(compile_all_write)
    /\ WF_vars(RunCallback)
    /\ \A w \in 1..MaxCompiles : WF_vars(ThreadStep(w))

(***************************************************************************)
(* Properties of compile_all and its thread                                *)
(***************************************************************************)

\* C34: while a thread has stages to run or a stage running, the temporary
\* source file that compile_all wrote exists: no thread's clean-up has
\* removed it
C34_TempFileOutlivesStages ==
    \A w \in 1..Len(threads) : InStages(threads[w]) => temp_file \in filesystem

\* the threads that have stages to run or a stage running
ThreadsInStages == {w \in 1..Len(threads) : InStages(threads[w])}

\* a thread is started only by a call that found the flag False and set it
\* True before
StartsOnlyUnderTheFlag ==
    /\ (ui = "idle" /\ ui' = "writing") => (~is_compiling /\ is_compiling')
    /\ Len(threads') > Len(threads) => (ui = "writing" /\ is_compiling /\ is_compiling')

\* while the flag is True and no call is inside compile_all, no step empties
\* the output, resets a card, writes the temporary file or starts a thread
BusyCallChangesNothing ==
    (is_compiling /\ ui = "idle") =>
        /\ ui' = "idle"
        /\ Len(threads') = Len(threads)
        /\ temp_file \in filesystem' => temp_file \in filesystem
        /\ Len(compile_output') >= Len(compile_output)
        /\ \A i \in 1..Len(stages) :
              stage_cards'[i] = "pending" => stage_cards[i] = "pending"

\* C35: at most one thread is in its stages at any time; a thread is started
\* only by a call that found is_compiling False and set it True first; while
\* it is True a further call changes nothing
C35_OneCompilationAtATime ==
    /\ [](Cardinality(ThreadsInStages) <= 1)
    /\ [][StartsOnlyUnderTheFlag /\ BusyCallChangesNothing]_vars

\* C35: the second thread in its stages while the first one, past its stages,
\* has not finished
C35_SecondStartsAfterFirstStages ==
    /\ Len(threads) = 2
    /\ threads[1].pc = "cleanup"
    /\ threads[2].pc = "subprocess"
    /\ is_compiling

\* C36: is_compiling set True is followed by is_compiling False
C36_FlagIsCleared == is_compiling ~> ~is_compiling

\* C36: the flag cleared by the callback of a thread that had a stage fail
C36_ClearedAfterFailedStage ==
    /\ Len(threads) = 1
    /\ threads[1].pc = "done"
    /\ ~threads[1].all_success
    /\ after_queue = <<>>
    /\ ~is_compiling

\* a thread past its loop has run the six stages
PastLoopRanAll ==
    \A w \in 1..Len(threads) :
        threads[w].pc \in {"summary", "cleanup", "done"} => threads[w].idx = Len(stages)

\* the summary says success only over six completed cards, and errors only
\* over a card in error
SummaryTellsCards ==
    \A k \in 1..Len(compile_output) :
        /\ compile_output[k].text = CompileSucceeded =>
              \A i \in 1..Len(stages) : stage_cards[i] = "completed"
        /\ compile_output[k].text = CompileWithErrors =>
              \E i \in 1..Len(stages) : stage_cards[i] = "error"

\* a thread goes from a stage to the next one only, and only from a stage
\* that was invoked
StagesInOrder ==
    \A w \in 1..Len(threads) :
        threads'[w].idx # threads[w].idx =>
            /\ threads'[w].idx = threads[w].idx + 1
            /\ threads[w].pc \in {"invoke", "subprocess"}

\* a card is set running from pending, after the cards before it ended and
\* before the cards after it start, and ends from running; the reset of
\* compile_all sets all cards pending
CardsInOrder ==
    \A i \in 1..Len(stages) :
        stage_cards'[i] # stage_cards[i] =>
            \/ stage_cards' = PendingCards
            \/ /\ stage_cards[i] = "pending"
               /\ stage_cards'[i] = "running"
               /\ \A j \in 1..(i - 1) : stage_cards[j] \in {"completed", "error"}
               /\ \A j \in (i + 1)..Len(stages) : stage_cards[j] = "pending"
            \/ /\ stage_cards[i] = "running"
               /\ stage_cards'[i] \in {"completed", "error"}

CalcAssign(variable_values, line) ==
    IF Contains(line, "=") /\ ~Contains(line, "return") /\ ~Contains(line, "function")
          /\ Len(Split(line, "=")) = 2
    THEN LET parts == Split(line, "=")
             var == Strip(parts[1])
             val_expr == Strip(parts[2])
             computed_val == evaluate_simple_expression(val_expr, variable_values)
         IN  IF computed_val # None THEN Put(variable_values, var, computed_val)
             ELSE variable_values
    ELSE variable_values

\* the first loop: every line in the order of the text, jumps not followed
RECURSIVE CalcVariables(_, _)
CalcVariables(lines, variable_values) ==
    IF lines = <<>> THEN variable_values
    ELSE CalcVariables(Tail(lines), CalcAssign(variable_values, Head(lines)))

\* the lines the second loop stops at
CalcReturnLines(lines) ==
    {i \in 1..Len(lines) : Contains(lines[i], "return") /\ ~StartsWith(lines[i], "function")}

\* the value the second loop takes from its line; int() of a digit that is
\* no decimal digit raises, and the except clause returns None
CalcReturn(line, variable_values) ==
    LET return_expr == Strip(Split(line, "return")[2])
    IN  IF IsDigit(return_expr)
        THEN IF IntParses(return_expr) THEN PyInt(ParseNat(return_expr)) ELSE None
        ELSE IF Has(variable_values, return_expr) THEN Get(variable_values, return_expr)
        ELSE evaluate_simple_expression(return_expr, variable_values)

\* calculate_program_result(output), lines being output.split('\n')
calculate_program_result(lines) ==
    LET variable_values == CalcVariables(lines, <<>>)
        found == CalcReturnLines(lines)
    IN  IF found = {} THEN None
        ELSE CalcReturn(lines[CHOOSE i \in found : \A j \in found : i <= j],
                        variable_values)

\* two numbers equal as Python compares them
SameNumber(l, r) == l.num * r.den = r.num * l.den

\* C38: when simulate_ir_execution returns a number for lines for which
\* calculate_program_result returns a number too, the two numbers are equal
C38_CalculatorsAgree ==
    (/\ status = "returned"
     /\ IsNumber(return_val)
     /\ IsNumber(calculate_program_result(ir_lines)))
        => SameNumber(return_val, calculate_program_result(ir_lines))

====
